---- MODULE Spec2Model ----
(***************************************************************************)
(* A model of the bhash hash tables: chained scatter with Brent's          *)
(* variation.  Pointers to keys and values are natural numbers (NULL is    *)
(* 0); a pointer into the entries array is the index of the entry it       *)
(* points to.                                                              *)
(***************************************************************************)
EXTENDS Integers, Sequences, FiniteSets, TLC

VARIABLES h, last, op, pass, todo, calls,
          maps, fbLast, fbOp, fbTodo, fbCalls,
          ix, ixOp, ixTodo, ixCalls,
          hs, hsOp, hsTodo, hsCalls,
          it, itLog, itTodo, itCalls,
          st, stLog, stTodo, stCalls,
          cp,
          fm, fmOp, fmTodo, fmCalls,
          walk,
          sh, th, ccBase, ccPeriod, ccTodo, ccCalls

\* The state of the pointer-linked map of src/unnamed/part_000 and of its
\* caller.
varsPtr == <<h, last, op, pass, todo, calls>>

\* The state of the maps with a fallback of src/unnamed/part_010 and of their
\* caller.
varsFb == <<maps, fbLast, fbOp, fbTodo, fbCalls>>

\* The state of the index-linked map of src/unnamed/part_011 and of its
\* caller.
varsIdx == <<ix, ixOp, ixTodo, ixCalls>>

\* The state of the hash set of src/hashset.c and of its caller.
varsSet == <<hs, hsOp, hsTodo, hsCalls>>

\* The state of the byte intern table of src/unnamed/part_006, of the heap
\* and of its caller.
varsIntern == <<it, itLog, itTodo, itCalls>>

\* The state of the string intern table of src/unnamed/part_007, of the heap
\* and of its caller.
varsStr == <<st, stLog, stTodo, stCalls>>

\* The table hashmap_copy of src/unnamed/part_000 returned.
varsCopy == <<cp>>

\* The state of the map of src/hashmap.c and of its caller.
varsFirst == <<fm, fmOp, fmTodo, fmCalls>>

\* The pass of hashmap_next calls over the pointer-linked map that its
\* caller is making.
varsWalk == <<walk>>

\* The table two threads share, what each thread holds in its locals, and
\* the calls of their caller.
varsConc == <<sh, th, ccBase, ccPeriod, ccTodo, ccCalls>>

vars == <<varsPtr, varsFb, varsIdx, varsSet, varsIntern, varsStr, varsCopy,
          varsFirst, varsWalk, varsConc>>

\* What the operations on one kind of table leave alone.
restPtr ==
    <<varsFb, varsIdx, varsSet, varsIntern, varsStr, varsCopy, varsFirst,
      varsWalk, varsConc>>
restFb ==
    <<varsPtr, varsIdx, varsSet, varsIntern, varsStr, varsCopy, varsFirst,
      varsWalk, varsConc>>
restIdx ==
    <<varsPtr, varsFb, varsSet, varsIntern, varsStr, varsCopy, varsFirst,
      varsWalk, varsConc>>
restSet ==
    <<varsPtr, varsFb, varsIdx, varsIntern, varsStr, varsCopy, varsFirst,
      varsWalk, varsConc>>
restIntern ==
    <<varsPtr, varsFb, varsIdx, varsSet, varsStr, varsCopy, varsFirst,
      varsWalk, varsConc>>
restStr ==
    <<varsPtr, varsFb, varsIdx, varsSet, varsIntern, varsCopy, varsFirst,
      varsWalk, varsConc>>
restCopy ==
    <<varsFb, varsIdx, varsSet, varsIntern, varsStr, varsFirst,
      varsWalk, varsConc>>
restFirst ==
    <<varsPtr, varsFb, varsIdx, varsSet, varsIntern, varsStr, varsCopy,
      varsWalk, varsConc>>
restConc ==
    <<varsPtr, varsFb, varsIdx, varsSet, varsIntern, varsStr, varsCopy,
      varsFirst, varsWalk>>

-----------------------------------------------------------------------------
\* Pointers and machine arithmetic

\* The null pointer of keys and values.
NULL == 0

\* The null entry pointer; as a value of lastfree it is also the position
\* just before entries[0] (entries - 1).
NOENT == -1

\* sizeof(void*) of the 64-bit build.
SizeofPtr == 8

\* The hash of the null pointer.
ZeroHash == 1234567

\* The capacity of the first allocation.
FirstCapacity == 16

RECURSIVE BitOr(_, _)
\* a | b on naturals.
BitOr(a, b) ==
    IF a = 0 THEN b
    ELSE IF b = 0 THEN a
    ELSE (IF a % 2 = 1 \/ b % 2 = 1 THEN 1 ELSE 0) + 2 * BitOr(a \div 2, b \div 2)

RECURSIVE BitAnd(_, _)
\* a & b on naturals.
BitAnd(a, b) ==
    IF a = 0 \/ b = 0 THEN 0
    ELSE (IF a % 2 = 1 /\ b % 2 = 1 THEN 1 ELSE 0) + 2 * BitAnd(a \div 2, b \div 2)

RECURSIVE Pow2(_)
Pow2(n) == IF n = 0 THEN 1 ELSE 2 * Pow2(n - 1)

\* hash_pointer: (s >> 5) | (s << (sizeof(void*) - 5)).  Keys of the model
\* are below 2^12, so the left shift loses no bit of the 64-bit word.
hash_pointer(p) ==
    IF p = NULL THEN ZeroHash
    ELSE BitOr(p \div 32, p * Pow2(SizeofPtr - 5))

\* (int)(hash_pointer(key) & (size_t)(capacity-1))
HomeSlot(key, capacity) == BitAnd(hash_pointer(key), capacity - 1)

-----------------------------------------------------------------------------
\* Inputs

\* The non-NULL values.
Vals == {1, 2}

\* The number of calls of a run that the caller chooses freely.
MaxCalls == 3

\* The keys the caller of the pointer-linked map draws from freely: 2, 4 and
\* 6 have home slot 0 at every capacity up to 16, and 480 has home slot 15 at
\* capacity 16 and 7 at capacity 8.
ActiveKeys == {2, 4, 6, 480}

\* The keys of the calls that the callers make first.
SpreadKeys == {32 * j : j \in 1 .. 13}
ChainKeys == {2 * j : j \in 4 .. 15}
DenseKeys == {32 * j : j \in {14, 16, 17}}

Keys == ActiveKeys \cup SpreadKeys \cup ChainKeys \cup DenseKeys

\* HomeSlot of the keys of the model at the capacities 1, 2, .., 64, computed
\* once.
HomeTable ==
    [c \in {Pow2(n) : n \in 0 .. 6} |-> [k \in Keys \cup {NULL} |-> HomeSlot(k, c)]]

\* The home slot of key in a table of capacity slots.
Home(key, capacity) ==
    IF capacity \in DOMAIN HomeTable /\ key \in DOMAIN HomeTable[capacity]
    THEN HomeTable[capacity][key]
    ELSE HomeSlot(key, capacity)

-----------------------------------------------------------------------------
\* The pointer-linked map (src/unnamed/part_000)

\* An entry after memset(.., 0, ..).
ZeroEntry == [key |-> NULL, value |-> NULL, next |-> NOENT]

\* Instrumentation of one call: the number of hashmap_resize calls it made,
\* the depth of hashmap_resize calls in progress, whether one was started
\* while another was re-inserting, and whether a null pointer was followed.
NoTrace ==
    [resizes |-> 0, depth |-> 0, nested |-> FALSE, fault |-> FALSE, nomem |-> 0]

\* hashmap_new: memset(h, 0, sizeof(hashmap_t)).
hashmap_new ==
    [entries |-> <<>>, lastfree |-> NOENT, capacity |-> 0, count |-> 0,
     fallback |-> NULL, trace |-> NoTrace]

RECURSIVE hashmap_set(_, _, _)
RECURSIVE hashmap_resize(_, _)
RECURSIVE Rehash(_, _, _)
RECURSIVE set_retry(_, _, _)

\* for (e = from; e && e->key; e = e->next) if (e->key == key) ...:
\* the entry of the chain that holds key, or NOENT.
RECURSIVE ChainFind(_, _, _)
ChainFind(t, e, key) ==
    IF e = NOENT THEN NOENT
    ELSE IF t.entries[e].key = NULL THEN NOENT
    ELSE IF t.entries[e].key = key THEN e
    ELSE ChainFind(t, t.entries[e].next, key)

\* hashmap_get on a table without fallback (fallback is NULL in every table
\* hashmap_new returns).
hashmap_get(t, key) ==
    LET e == IF t.capacity > 0
             THEN ChainFind(t, Home(key, t.capacity), key)
             ELSE NOENT
    IN IF e # NOENT THEN t.entries[e].value ELSE NULL

\* hashmap_length
hashmap_length(t) == t.count

\* while (h->lastfree >= h->entries && h->lastfree->key) --h->lastfree;
RECURSIVE ScanLastFree(_, _)
ScanLastFree(t, lf) ==
    IF lf >= 0 /\ t.entries[lf].key # NULL THEN ScanLastFree(t, lf - 1) ELSE lf

\* The new size with a growth by one half in place of the doubling.
NewSize_GrowByHalf(t) ==
    IF t.count + 1 > t.capacity THEN t.capacity + t.capacity \div 2
    ELSE IF t.count + 1 <= t.capacity \div 2 THEN t.capacity \div 2
    ELSE t.capacity

\* The new size chosen when no slot is free.
NewSize(t) ==
    IF t.count + 1 > t.capacity THEN t.capacity * 2
    ELSE IF t.count + 1 <= t.capacity \div 2 THEN t.capacity \div 2
    ELSE t.capacity

\* Store key and value in the empty home slot i.
StoreHome(t, i, key, value) ==
    [t EXCEPT !.entries[i] = [key |-> key, value |-> value, next |-> NOENT],
              !.count = @ + 1]

\* UpdateValue without the adjustment of the count.
UpdateValue_KeepCount(t, e, value) ==
    [t EXCEPT !.entries[e].value = value]

\* UpdateValue that empties the slot of a key whose value becomes NULL.
UpdateValue_ClearKey(t, e, value) ==
    LET old_value == t.entries[e].value
    IN [t EXCEPT !.count = @ + (IF value # NULL THEN 1 ELSE 0)
                             + (IF old_value # NULL THEN -1 ELSE 0),
                 !.entries[e].value = value,
                 !.entries[e].key = IF value = NULL THEN NULL ELSE @]

\* Update the value of entry e.
UpdateValue(t, e, value) ==
    LET old_value == t.entries[e].value
    IN [t EXCEPT !.count = @ + (IF value # NULL THEN 1 ELSE 0)
                             + (IF old_value # NULL THEN -1 ELSE 0),
                 !.entries[e].value = value]

\* SpliceNew with the new node's next left NULL: the rest of the chain is
\* cut off.
SpliceNew_DropTail(t, i, lf, key, value) ==
    [t EXCEPT !.entries[lf] = [key |-> key, value |-> value, next |-> NOENT],
              !.entries[i].next = lf,
              !.count = @ + 1]

\* The colliding node i is in its home: the new node goes to the free slot
\* lf, between the colliding node and the second node of the chain.
SpliceNew(t, i, lf, key, value) ==
    [t EXCEPT !.entries[lf] = [key |-> key, value |-> value,
                               next |-> t.entries[i].next],
              !.entries[i].next = lf,
              !.count = @ + 1]

RECURSIVE WalkPrev(_, _, _)

\* WalkPrev that starts at the second node of the chain.
WalkPrev_FromSecond(t, prev, i) ==
    IF prev = NOENT THEN NOENT
    ELSE WalkPrev(t, t.entries[prev].next, i)

\* prev = &h->entries[i2]; while (prev->next != collision) prev = prev->next;
\* NOENT when the walk runs off the chain (a null pointer is followed).
WalkPrev(t, prev, i) ==
    IF prev = NOENT THEN NOENT
    ELSE IF t.entries[prev].next = i THEN prev
    ELSE WalkPrev(t, t.entries[prev].next, i)

\* Displace without prev->next = h->lastfree: the predecessor keeps pointing
\* to slot i.
Displace_NoRelink(t, i, i2, lf, key, value) ==
    [t EXCEPT !.entries =
                 [[@ EXCEPT ![lf] = t.entries[i]]
                     EXCEPT ![i] = [key |-> key, value |-> value, next |-> NOENT]],
              !.count = @ + 1]

\* Displace that leaves the successor link of slot i as it was.
Displace_KeepLink(t, i, i2, lf, key, value) ==
    LET prev == WalkPrev(t, i2, i)
    IN IF prev = NOENT THEN [t EXCEPT !.trace.fault = TRUE]
       ELSE [t EXCEPT !.entries =
                         [[[@ EXCEPT ![lf] = t.entries[i]]
                              EXCEPT ![prev].next = lf]
                              EXCEPT ![i] = [key |-> key, value |-> value,
                                             next |-> t.entries[i].next]],
                      !.count = @ + 1]

\* The colliding node i is in the chain of another home i2: it moves to the
\* free slot lf and the new node takes slot i.
Displace(t, i, i2, lf, key, value) ==
    LET prev == WalkPrev(t, i2, i)
    IN IF prev = NOENT THEN [t EXCEPT !.trace.fault = TRUE]
       ELSE [t EXCEPT !.entries =
                         [[[@ EXCEPT ![lf] = t.entries[i]]
                              EXCEPT ![prev].next = lf]
                              EXCEPT ![i] = [key |-> key, value |-> value,
                                             next |-> NOENT]],
                      !.count = @ + 1]

\* hashmap_set from the label retry on.
set_retry(t, key, value) ==
    LET i == Home(key, t.capacity)
        collision == t.entries[i]
    IN IF t.trace.fault THEN [h |-> t, ret |-> NULL]
       ELSE IF collision.key = NULL
       THEN IF value = NULL THEN [h |-> t, ret |-> NULL]
            ELSE [h |-> StoreHome(t, i, key, value), ret |-> NULL]
       ELSE LET i2 == Home(collision.key, t.capacity)
                e == IF i2 = i THEN ChainFind(t, i, key) ELSE NOENT
            IN IF e # NOENT
               THEN [h |-> UpdateValue(t, e, value), ret |-> t.entries[e].value]
               ELSE LET lf == ScanLastFree(t, t.lastfree)
                        t1 == [t EXCEPT !.lastfree = lf]
                    IN IF lf < 0
                       THEN set_retry(hashmap_resize(t1, NewSize(t1)), key, value)
                       ELSE IF i2 = i
                       THEN [h |-> SpliceNew(t1, i, lf, key, value), ret |-> NULL]
                       ELSE [h |-> Displace(t1, i, i2, lf, key, value), ret |-> NULL]

\* hashmap_set without the test of the key.
hashmap_set_NoKeyTest(t, key, value) ==
    set_retry(IF t.capacity = 0 THEN hashmap_resize(t, FirstCapacity) ELSE t,
              key, value)

\* hashmap_set
hashmap_set(t, key, value) ==
    IF key = NULL THEN [h |-> t, ret |-> NULL]
    ELSE set_retry(IF t.capacity = 0 THEN hashmap_resize(t, FirstCapacity) ELSE t,
                   key, value)

\* The rehash loop of hashmap_resize, from slot i of the old array on.
Rehash(t, old, i) ==
    IF i >= old.capacity \/ t.trace.fault THEN t
    ELSE IF old.entries[i].key # NULL
         THEN Rehash(hashmap_set(t, old.entries[i].key, old.entries[i].value).h,
                     old, i + 1)
         ELSE Rehash(t, old, i + 1)

\* custom_alloc returns NULL in this hashmap_resize call: it is the call
\* number trace.nomem of the hashmap_set in progress (0: no call fails).
NoMemory(t) == t.trace.resizes + 1 = t.trace.nomem

\* hashmap_resize with a rehash loop that starts at slot 1.
hashmap_resize_SkipFirst(t, new_size) ==
    LET old == t
        fresh == [t EXCEPT !.entries = [i \in 0 .. new_size - 1 |-> ZeroEntry],
                           !.capacity = new_size,
                           !.count = 0,
                           !.lastfree = new_size - 1,
                           !.trace.resizes = @ + 1,
                           !.trace.depth = @ + 1,
                           !.trace.nested = @ \/ t.trace.depth > 0]
        done == IF old.capacity > 0 THEN Rehash(fresh, old, 1) ELSE fresh
    IN [done EXCEPT !.trace.depth = @ - 1]

\* hashmap_resize.  When custom_alloc returns NULL, h->entries is NULL and
\* memset(h->entries, 0, size) writes through it: the process is ended by
\* the fault, inside the call.
hashmap_resize(t, new_size) ==
    LET old == t
        fresh == [t EXCEPT !.entries = [i \in 0 .. new_size - 1 |-> ZeroEntry],
                           !.capacity = new_size,
                           !.count = 0,
                           !.lastfree = new_size - 1,
                           !.trace.resizes = @ + 1,
                           !.trace.depth = @ + 1,
                           !.trace.nested = @ \/ t.trace.depth > 0]
        done == IF old.capacity > 0 THEN Rehash(fresh, old, 0) ELSE fresh
    IN IF NoMemory(t)
       THEN [t EXCEPT !.entries = <<>>,
                      !.trace.resizes = @ + 1,
                      !.trace.fault = TRUE]
       ELSE [done EXCEPT !.trace.depth = @ - 1]

\* NextLive without the test of e->value.
RECURSIVE NextLive_NoValueCheck(_, _)
NextLive_NoValueCheck(t, e) ==
    IF e >= t.capacity THEN NOENT
    ELSE IF t.entries[e].key # NULL THEN e
    ELSE NextLive_NoValueCheck(t, e + 1)

\* The slot of the first entry at or after e with a key and a value, or
\* NOENT: for (; e < &h->entries[h->capacity]; e++) if (e->key && e->value)
RECURSIVE NextLive(_, _)
NextLive(t, e) ==
    IF e >= t.capacity THEN NOENT
    ELSE IF t.entries[e].key # NULL /\ t.entries[e].value # NULL THEN e
    ELSE NextLive(t, e + 1)

\* while (e && e->key != key) e = e->next;
RECURSIVE ChainSeek(_, _, _)
ChainSeek(t, e, key) ==
    IF e = NOENT THEN NOENT
    ELSE IF t.entries[e].key = key THEN e
    ELSE ChainSeek(t, t.entries[e].next, key)

\* hashmap_next
hashmap_next(t, key) ==
    IF t.capacity = 0 THEN NULL
    ELSE LET start ==
                 IF key # NULL
                 THEN LET i == Home(key, t.capacity)
                      IN IF t.entries[i].key = NULL THEN NOENT
                         ELSE LET e == ChainSeek(t, i, key)
                              IN IF e = NOENT THEN NOENT ELSE e + 1
                 ELSE 0
             found == IF start = NOENT THEN NOENT ELSE NextLive(t, start)
         IN IF found = NOENT THEN NULL ELSE t.entries[found].key

\* hashmap_clear that leaves the count as it is.
hashmap_clear_KeepCount(t) ==
    IF t.capacity = 0 THEN t
    ELSE [t EXCEPT !.entries = <<>>, !.lastfree = NOENT, !.capacity = 0]

\* hashmap_clear
hashmap_clear(t) ==
    IF t.capacity = 0 THEN t
    ELSE [t EXCEPT !.entries = <<>>, !.lastfree = NOENT, !.capacity = 0, !.count = 0]

\* A pointer whose value was never assigned and is not null.
WILD == -2

\* The contents of the block custom_alloc(sizeof(hashmap_t)) returns: malloc
\* does not initialise it, so every field is either zero or left over.  The
\* cursor lastfree is not listed: it is assigned before it is read.
Junk ==
    [capacity : {0, FirstCapacity}, count : {0, 1},
     entries : {NULL, WILD}, fallback : {NULL, WILD}]

\* A block of zero bytes.
ZeroJunk == [capacity |-> 0, count |-> 0, entries |-> NULL, fallback |-> NULL]

\* No copy has been made.
NoCopy == [made |-> FALSE, h |-> hashmap_new, wild |-> FALSE, junk |-> ZeroJunk]

\* hashmap_t *copy = custom_alloc(sizeof(hashmap_t)): the fields of the
\* copy are those of the block; wild says that entries is a left-over
\* pointer.
Uninit(junk) ==
    [made |-> TRUE,
     h |-> [hashmap_new EXCEPT !.capacity = junk.capacity,
                               !.count = junk.count,
                               !.fallback = junk.fallback],
     wild |-> junk.entries = WILD,
     junk |-> junk]

\* hashmap_set(copy, key, value) on a table whose fields may be left over.
\* With capacity 0, hashmap_resize saves the old struct and hands a non-null
\* old.entries to custom_free; with another capacity the home slot is read
\* through entries.
copy_set(c, key, value) ==
    IF key = NULL THEN [c |-> c, ret |-> NULL]
    ELSE IF c.h.trace.fault THEN [c |-> c, ret |-> NULL]
    ELSE IF c.wild \/ (c.h.capacity # 0 /\ c.h.entries = <<>>)
    THEN [c |-> [c EXCEPT !.h.trace.fault = TRUE], ret |-> NULL]
    ELSE LET r == hashmap_set(c.h, key, value)
         IN [c |-> [c EXCEPT !.h = r.h], ret |-> r.ret]

\* hashmap_get(copy, key) follows a pointer that was never assigned: the
\* entries of a table with a left-over capacity or array, or the fallback
\* when the key is in no chain.
CopyGetFaults(c, key) ==
    \/ c.h.trace.fault
    \/ c.h.capacity > 0 /\ (c.wild \/ c.h.entries = <<>>)
    \/ /\ c.h.fallback = WILD
       /\ IF c.h.capacity > 0 /\ ~c.wild /\ c.h.entries # <<>>
          THEN ChainFind(c.h, Home(key, c.h.capacity), key) = NOENT
          ELSE TRUE

\* for (int i = 0; i < capacity; i++) if (entries[i].key) hashmap_set(copy, ..)
RECURSIVE CopyLoop(_, _, _)
CopyLoop(c, t, i) ==
    IF i >= t.capacity \/ c.h.trace.fault THEN c
    ELSE IF t.entries[i].key # NULL
         THEN CopyLoop(copy_set(c, t.entries[i].key, t.entries[i].value).c,
                       t, i + 1)
         ELSE CopyLoop(c, t, i + 1)

\* hashmap_copy, when the allocator returns a block with the contents junk.
hashmap_copy(t, junk) == CopyLoop(Uninit(junk), t, 0)

-----------------------------------------------------------------------------
\* The caller of the pointer-linked map

\* Thirteen keys with the home slots 1 .. 13 of a 16-slot table.
StoreSpread == [j \in 1 .. 13 |-> <<32 * j, 1>>]

\* Removals of the n keys with the home slots 14 - n .. 13.
RemoveSpread(n) == [j \in 1 .. n |-> <<32 * (j + 13 - n), NULL>>]

\* Two keys with home slot 0.
StorePair == <<(<<2, 1>>), (<<4, 1>>)>>

\* Twelve keys that all have home slot 0, and in their middle a key with
\* home slot 15.
StoreChain ==
    [j \in 1 .. 6 |-> <<2 * (j + 3), 1>>] \o <<(<<480, 1>>)>>
        \o [j \in 1 .. 6 |-> <<2 * (j + 9), 1>>]

\* Removals of the nine keys with the home slots 1 .. 9 and of key 2.
RemoveLow == [j \in 1 .. 9 |-> <<32 * j, NULL>>] \o <<(<<2, NULL>>)>>

\* Four keys with home slot 0, chained 2@0 -> 8@13 -> 6@14 -> 4@15, and then
\* a key whose home slot 13 holds the second of them.
StoreQuad ==
    <<(<<2, 1>>), (<<4, 1>>), (<<6, 1>>), (<<8, 1>>), (<<416, 2>>)>>

\* The hashmap_set calls a caller makes before it chooses calls freely.
Scripts ==
    {<<>>,
     StoreQuad,
     StoreSpread \o StorePair,
     StoreSpread \o RemoveSpread(9) \o StorePair,
     StoreSpread \o StorePair \o RemoveLow,
     StoreChain}

NoOp == [name |-> "new", key |-> NULL, value |-> NULL, ret |-> NULL]
NoPass == [valid |-> FALSE, keys |-> <<>>, ended |-> FALSE]

\* No pass of hashmap_next calls has begun.  Of a pass that has begun, cursor
\* is the key the last call returned, keys the keys returned so far, ended
\* whether the last call returned NULL, live the keys that had a value when
\* the pass began and that the caller has not removed since, and removed the
\* keys the caller has removed since.
NoWalk == [active |-> FALSE, cursor |-> NULL, keys |-> <<>>, ended |-> FALSE,
           live |-> {}, removed |-> {}]

\* The keys hashmap_next returns, from hashmap_next(h, NULL) on, until it
\* returns NULL or fuel calls have been made.
RECURSIVE NextKeys(_, _, _)
NextKeys(t, key, fuel) ==
    IF fuel = 0 THEN [keys |-> <<>>, ended |-> FALSE]
    ELSE LET k == hashmap_next(t, key)
         IN IF k = NULL THEN [keys |-> <<>>, ended |-> TRUE]
            ELSE LET rest == NextKeys(t, k, fuel - 1)
                 IN [keys |-> <<k>> \o rest.keys, ended |-> rest.ended]

\* hashmap_new, and a caller about to run script.
InitPtr(script) ==
    /\ h = hashmap_new
    /\ last = [k \in Keys |-> NULL]
    /\ op = NoOp
    /\ pass = NoPass
    /\ todo = script
    /\ calls = 0
    /\ cp = NoCopy
    /\ walk = NoWalk

\* The calls the caller may make next: the next call of its script, or any
\* call once the script is done.
Callable ==
    IF h.trace.fault THEN {}
    ELSE IF todo # <<>> THEN {Head(todo)}
    ELSE IF calls < MaxCalls
    THEN (ActiveKeys \cup {NULL}) \X (Vals \cup {NULL})
    ELSE {}

\* A call hashmap_set(h, key, value).
HashmapSet ==
    \E c \in Callable :
        LET key == c[1]
            value == c[2]
            r == hashmap_set([h EXCEPT !.trace = NoTrace], key, value)
        IN /\ h' = r.h
           /\ last' = IF key = NULL THEN last ELSE [last EXCEPT ![key] = value]
           /\ op' = [name |-> "set", key |-> key, value |-> value, ret |-> r.ret]
           /\ pass' = NoPass
           /\ todo' = IF todo # <<>> THEN Tail(todo) ELSE todo
           /\ calls' = IF todo # <<>> THEN calls ELSE calls + 1
           /\ UNCHANGED restPtr

\* A full pass of hashmap_next calls with no mutation in between.
HashmapNextPass ==
    /\ ~h.trace.fault
    /\ todo = <<>>
    /\ ~pass.valid
    /\ LET r == NextKeys(h, NULL, h.capacity + 1)
       IN pass' = [valid |-> TRUE, keys |-> r.keys, ended |-> r.ended]
    /\ UNCHANGED <<h, last, op, todo, calls>>
    /\ UNCHANGED restPtr

\* One call of a pass: hashmap_next(h, NULL) begins the pass, the later
\* calls are hashmap_next(h, key) with the key the call before returned,
\* until a call returns NULL.
HashmapNext ==
    /\ ~h.trace.fault
    /\ todo = <<>>
    /\ ~walk.ended
    /\ Len(walk.keys) <= h.capacity
    /\ walk.active \/ calls < MaxCalls
    /\ LET k == hashmap_next(h, walk.cursor)
       IN /\ walk' = [active |-> TRUE,
                      cursor |-> k,
                      keys |-> IF k = NULL THEN walk.keys
                               ELSE Append(walk.keys, k),
                      ended |-> k = NULL,
                      live |-> IF walk.active THEN walk.live
                               ELSE {x \in Keys : hashmap_get(h, x) # NULL},
                      removed |-> walk.removed]
          /\ op' = [name |-> "next", key |-> walk.cursor, value |-> NULL,
                    ret |-> k]
    /\ calls' = IF walk.active THEN calls ELSE calls + 1
    /\ UNCHANGED <<h, last, pass, todo>>
    /\ UNCHANGED <<varsFb, varsIdx, varsSet, varsIntern, varsStr, varsCopy,
                   varsFirst, varsConc>>

\* A call hashmap_set(h, key, NULL) between two calls of a pass, on a key
\* that has a value: the key the pass has just returned, or one of the keys
\* the caller draws from.
HashmapRemoveInPass ==
    /\ ~h.trace.fault
    /\ todo = <<>>
    /\ walk.active /\ ~walk.ended
    /\ calls < MaxCalls
    /\ \E key \in (ActiveKeys \cup {walk.cursor}) \ {NULL} :
         /\ hashmap_get(h, key) # NULL
         /\ LET r == hashmap_set([h EXCEPT !.trace = NoTrace], key, NULL)
            IN /\ h' = r.h
               /\ op' = [name |-> "set", key |-> key, value |-> NULL,
                         ret |-> r.ret]
         /\ last' = [last EXCEPT ![key] = NULL]
         /\ walk' = [walk EXCEPT !.live = @ \ {key},
                                 !.removed = @ \cup {key}]
    /\ pass' = NoPass
    /\ calls' = calls + 1
    /\ UNCHANGED todo
    /\ UNCHANGED <<varsFb, varsIdx, varsSet, varsIntern, varsStr, varsCopy,
                   varsFirst, varsConc>>

\* A call hashmap_set(h, key, value) during which the allocator has no
\* memory for the hashmap_resize call number n.
HashmapSetNoMem ==
    \E c \in Callable, n \in 1 .. 2 :
        LET key == c[1]
            value == c[2]
            r == hashmap_set([h EXCEPT !.trace = [NoTrace EXCEPT !.nomem = n]],
                             key, value)
        IN /\ r.h.trace.fault
           /\ h' = r.h
           /\ last' = last
           /\ op' = [name |-> "set_nomem", key |-> key, value |-> value,
                     ret |-> r.ret]
           /\ pass' = NoPass
           /\ todo' = IF todo # <<>> THEN Tail(todo) ELSE todo
           /\ calls' = IF todo # <<>> THEN calls ELSE calls + 1
           /\ UNCHANGED restPtr

\* A call hashmap_clear(h).
HashmapClear ==
    /\ ~h.trace.fault
    /\ todo = <<>>
    /\ calls < MaxCalls
    /\ h' = [hashmap_clear(h) EXCEPT !.trace = NoTrace]
    /\ last' = [k \in Keys |-> NULL]
    /\ op' = [name |-> "clear", key |-> NULL, value |-> NULL, ret |-> NULL]
    /\ pass' = NoPass
    /\ calls' = calls + 1
    /\ UNCHANGED todo
    /\ UNCHANGED restPtr

\* The calls a caller makes before it copies the table.
CopyScripts ==
    {<<>>,
     StoreSpread \o StorePair,
     StoreSpread \o StorePair \o RemoveLow}

\* A call c = hashmap_copy(h); the allocator returns a block with any
\* contents.
HashmapCopy ==
    /\ ~h.trace.fault
    /\ todo = <<>>
    /\ calls < MaxCalls
    /\ ~cp.made
    /\ \E junk \in Junk :
           LET c == hashmap_copy([h EXCEPT !.trace = NoTrace], junk)
           IN cp' = [c EXCEPT !.h.trace = [NoTrace EXCEPT !.fault = c.h.trace.fault]]
    /\ op' = [name |-> "copy", key |-> NULL, value |-> NULL, ret |-> NULL]
    /\ pass' = NoPass
    /\ calls' = calls + 1
    /\ UNCHANGED <<h, last, todo>>
    /\ UNCHANGED restCopy

\* A call hashmap_set(c, key, value) on the copy.
HashmapSetCopy ==
    /\ cp.made
    /\ ~cp.h.trace.fault
    /\ todo = <<>>
    /\ calls < MaxCalls
    /\ \E key \in ActiveKeys, value \in Vals \cup {NULL} :
           LET r == copy_set([cp EXCEPT !.h.trace = NoTrace], key, value)
           IN /\ cp' = [r.c EXCEPT !.h.trace = [NoTrace EXCEPT !.fault = r.c.h.trace.fault]]
              /\ op' = [name |-> "set_copy", key |-> key, value |-> value,
                        ret |-> r.ret]
    /\ pass' = NoPass
    /\ calls' = calls + 1
    /\ UNCHANGED <<h, last, todo>>
    /\ UNCHANGED restCopy

-----------------------------------------------------------------------------
\* Two threads in hashmap_set on one table (src/unnamed/part_000, lines
\* 103-171): the code takes no lock, so the reads and writes of the two calls
\* interleave.  A call is cut at the places where it has read the shared
\* table into its locals (i, collision, i2, e) and goes on to write.

Threads == {1, 2}

\* A walk that does not come to an end: the chain it follows is a cycle.
HANG == -3

\* The locals of a thread that is not in a call.  gen is the entries array
\* that the pointers collision and e point into.
CcIdle ==
    [pc |-> "idle", key |-> NULL, value |-> NULL, i |-> 0, i2 |-> 0,
     e |-> NOENT, gen |-> 0]

\* The keys and values the two threads store.
CcVals == Vals \cup {NULL}

\* The table with the instrumentation of the call left out.
CcClean(t) == [t EXCEPT !.trace = NoTrace]

\* ChainFind that gives up after fuel steps.  A chain of a table has at most
\* capacity entries, so a walk of more steps is in a cycle and goes on for
\* ever.
RECURSIVE CcFind(_, _, _, _)
CcFind(t, e, key, fuel) ==
    IF e = NOENT THEN NOENT
    ELSE IF t.entries[e].key = NULL THEN NOENT
    ELSE IF t.entries[e].key = key THEN e
    ELSE IF fuel = 0 THEN HANG
    ELSE CcFind(t, t.entries[e].next, key, fuel - 1)

\* hashmap_get with the bounded walk: the value, NULL, or HANG.
CcGet(t, key) ==
    LET e == IF t.capacity > 0
             THEN CcFind(t, Home(key, t.capacity), key, t.capacity)
             ELSE NOENT
    IN IF e = HANG THEN HANG
       ELSE IF e # NOENT THEN t.entries[e].value
       ELSE NULL

\* WalkPrev that gives up after fuel steps.
RECURSIVE CcWalkPrev(_, _, _, _)
CcWalkPrev(t, prev, i, fuel) ==
    IF prev = NOENT THEN NOENT
    ELSE IF t.entries[prev].next = i THEN prev
    ELSE IF fuel = 0 THEN HANG
    ELSE CcWalkPrev(t, t.entries[prev].next, i, fuel - 1)

\* Lines 109-132: from the label retry to the place where the call has
\* decided what to write.  The locals of the thread after it.
cc_probe(s, l) ==
    LET t == s.t
        i == Home(l.key, t.capacity)
        collision == t.entries[i]
        i2 == Home(collision.key, t.capacity)
        e == IF i2 = i THEN CcFind(t, i, l.key, t.capacity) ELSE NOENT
    IN IF collision.key = NULL
       THEN IF l.value = NULL THEN CcIdle
            ELSE [l EXCEPT !.pc = "store", !.i = i, !.i2 = 0, !.e = NOENT,
                           !.gen = s.gen]
       ELSE IF e = HANG
       THEN [l EXCEPT !.pc = "hung", !.i = 0, !.i2 = 0, !.e = NOENT]
       ELSE IF e # NOENT
       THEN [l EXCEPT !.pc = "update", !.i = 0, !.i2 = 0, !.e = e,
                      !.gen = s.gen]
       ELSE [l EXCEPT !.pc = "scan", !.i = i, !.i2 = i2, !.e = NOENT,
                      !.gen = s.gen]

\* cc_store without ++h->count.
cc_store_NoCount(s, l) ==
    IF l.gen # s.gen
    THEN [s EXCEPT !.bad = "stale"]
    ELSE [s EXCEPT !.t.entries[l.i] =
                       [key |-> l.key, value |-> l.value, next |-> NOENT]]

\* Lines 113-116: the writes to the empty home slot.  When the other thread
\* has resized in between, collision points into the array it freed.
cc_store(s, l) ==
    IF l.gen # s.gen
    THEN [s EXCEPT !.bad = "stale"]
    ELSE [s EXCEPT !.t = StoreHome(@, l.i, l.key, l.value)]

\* Lines 125-128: the update of the entry e.
cc_update(s, l) ==
    IF l.gen # s.gen
    THEN [s EXCEPT !.bad = "stale"]
    ELSE [s EXCEPT !.t = UpdateValue(@, l.e, l.value)]

\* Lines 135-136: the scan for a free slot, on h->lastfree and h->entries as
\* they are now.
cc_scan(s) == [s EXCEPT !.t.lastfree = ScanLastFree(s.t, s.t.lastfree)]

\* Lines 140-144: hashmap_resize to the new size; the old array is freed.
cc_grow(s) ==
    LET t == hashmap_resize(s.t, NewSize(s.t))
    IN [s EXCEPT !.t = CcClean(t), !.gen = @ + 1,
                 !.bad = IF t.trace.fault THEN "null" ELSE @]

\* Lines 147-169: the writes that link the new entry into the slot
\* h->lastfree points to now.  The table after them and what becomes of the
\* thread.
cc_link(s, l) ==
    LET t == s.t
        lf == t.lastfree
        prev == CcWalkPrev(t, l.i2, l.i, t.capacity)
    IN IF l.gen # s.gen
       THEN [s |-> [s EXCEPT !.bad = "stale"], pc |-> "idle"]
       ELSE IF lf < 0
       THEN [s |-> [s EXCEPT !.bad = "below"], pc |-> "idle"]
       ELSE IF l.i2 = l.i
       THEN [s |-> [s EXCEPT !.t = SpliceNew(@, l.i, lf, l.key, l.value)],
             pc |-> "idle"]
       ELSE IF prev = HANG
       THEN [s |-> s, pc |-> "hung"]
       ELSE IF prev = NOENT
       THEN [s |-> [s EXCEPT !.bad = "null"], pc |-> "idle"]
       ELSE [s |-> [s EXCEPT !.t = Displace(@, l.i, l.i2, lf, l.key, l.value)],
             pc |-> "idle"]
-----------------------------------------------------------------------------
\* The caller of the two threads: it fills the table from one thread, then
\* lets the two threads call hashmap_set, one call at a time or two at once.

\* The calls that fill the table.
CcScripts == {<<>>, StorePair, StoreSpread \o StorePair}

InitConc(script) ==
    /\ sh = [t |-> hashmap_new, gen |-> 0, bad |-> "none"]
    /\ th = [p \in Threads |-> CcIdle]
    /\ ccBase = hashmap_new
    /\ ccPeriod = <<>>
    /\ ccTodo = script
    /\ ccCalls = 0

\* No thread is in a call.
Quiescent == \A p \in Threads : th[p].pc = "idle"

\* The keys the two threads store: 2 and 6 have the same home slot in every
\* array, 480 has the last slot of an array of 16.
CcKeys == {2, 6, 480}

\* The calls thread p may start: the next call of the script, and then any
\* call.  Thread 1 calls when the table is at rest; thread 2 calls while
\* thread 1 is in the only call since the table was last at rest.
CcCallable(p) ==
    IF ccTodo # <<>>
    THEN IF p = 1 /\ Quiescent THEN {Head(ccTodo)} ELSE {}
    ELSE IF ccCalls >= MaxCalls THEN {}
    ELSE IF Quiescent THEN (IF p = 1 THEN CcKeys \X CcVals ELSE {})
    ELSE IF Len(ccPeriod) = 1 THEN CcKeys \X CcVals
    ELSE {}

\* A thread has followed a pointer that is NULL, that points into a freed
\* array or that points below the array: what the program does from there on
\* is not defined.
CcRuns == sh.bad = "none"

\* Thread p enters hashmap_set(h, key, value): lines 105-107.
CcBegin ==
    \E p \in Threads :
        /\ CcRuns
        /\ th[p].pc = "idle"
        /\ \E c \in CcCallable(p) :
               /\ th' = [th EXCEPT ![p] =
                            [CcIdle EXCEPT !.pc = IF sh.t.capacity = 0
                                                  THEN "first" ELSE "probe",
                                           !.key = c[1],
                                           !.value = c[2]]]
               /\ ccBase' = IF Quiescent THEN sh.t ELSE ccBase
               /\ ccPeriod' = IF Quiescent THEN <<c>> ELSE Append(ccPeriod, c)
        /\ ccTodo' = IF ccTodo # <<>> THEN Tail(ccTodo) ELSE ccTodo
        /\ ccCalls' = IF ccTodo # <<>> THEN ccCalls ELSE ccCalls + 1
        /\ UNCHANGED sh
        /\ UNCHANGED restConc

\* Line 107: hashmap_resize(h, 16) on the table that has no array yet.
CcFirst ==
    \E p \in Threads :
        /\ CcRuns
        /\ th[p].pc = "first"
        /\ sh' = [sh EXCEPT !.t = CcClean(hashmap_resize(@, FirstCapacity)),
                            !.gen = @ + 1]
        /\ th' = [th EXCEPT ![p].pc = "probe"]
        /\ UNCHANGED <<ccBase, ccPeriod, ccTodo, ccCalls>>
        /\ UNCHANGED restConc

\* Lines 109-132.
CcProbe ==
    \E p \in Threads :
        /\ CcRuns
        /\ th[p].pc = "probe"
        /\ th' = [th EXCEPT ![p] = cc_probe(sh, th[p])]
        /\ UNCHANGED <<sh, ccBase, ccPeriod, ccTodo, ccCalls>>
        /\ UNCHANGED restConc

\* Lines 113-117.
CcStore ==
    \E p \in Threads :
        /\ CcRuns
        /\ th[p].pc = "store"
        /\ sh' = cc_store(sh, th[p])
        /\ th' = [th EXCEPT ![p] = CcIdle]
        /\ UNCHANGED <<ccBase, ccPeriod, ccTodo, ccCalls>>
        /\ UNCHANGED restConc

\* Lines 125-128.
CcUpdate ==
    \E p \in Threads :
        /\ CcRuns
        /\ th[p].pc = "update"
        /\ sh' = cc_update(sh, th[p])
        /\ th' = [th EXCEPT ![p] = CcIdle]
        /\ UNCHANGED <<ccBase, ccPeriod, ccTodo, ccCalls>>
        /\ UNCHANGED restConc

\* Lines 135-139: the scan and the test of its result.
CcScan ==
    \E p \in Threads :
        /\ CcRuns
        /\ th[p].pc = "scan"
        /\ sh' = cc_scan(sh)
        /\ th' = [th EXCEPT ![p].pc = IF sh'.t.lastfree < 0
                                      THEN "grow" ELSE "link"]
        /\ UNCHANGED <<ccBase, ccPeriod, ccTodo, ccCalls>>
        /\ UNCHANGED restConc

\* Lines 140-144: the resize and goto retry.
CcGrow ==
    \E p \in Threads :
        /\ CcRuns
        /\ th[p].pc = "grow"
        /\ sh' = cc_grow(sh)
        /\ th' = [th EXCEPT ![p] = [CcIdle EXCEPT !.pc = "probe",
                                                  !.key = th[p].key,
                                                  !.value = th[p].value]]
        /\ UNCHANGED <<ccBase, ccPeriod, ccTodo, ccCalls>>
        /\ UNCHANGED restConc

\* Lines 147-170.
CcLink ==
    \E p \in Threads :
        LET r == cc_link(sh, th[p])
        IN /\ CcRuns
           /\ th[p].pc = "link"
           /\ sh' = r.s
           /\ th' = [th EXCEPT ![p] = IF r.pc = "idle" THEN CcIdle
                                      ELSE [@ EXCEPT !.pc = r.pc]]
           /\ UNCHANGED <<ccBase, ccPeriod, ccTodo, ccCalls>>
           /\ UNCHANGED restConc

-----------------------------------------------------------------------------
\* Observations of the pointer-linked map

\* The keys with a non-NULL value according to hashmap_get.
LiveKeys(t) == {k \in Keys : hashmap_get(t, k) # NULL}

\* The (key, value) pairs with a non-NULL value.
LivePairs(t) == {<<k, hashmap_get(t, k)>> : k \in LiveKeys(t)}

\* The step is a call hashmap_set(h, op'.key, op'.value).
SetCalled == op'.name = "set" /\ <<todo, calls>>' # <<todo, calls>>

\* The slots that hold a key.
Occupied(t) == {i \in 0 .. t.capacity - 1 : t.entries[i].key # NULL}

\* The slots that hold a removed key (a key with a NULL value).
Removed(t) == {i \in Occupied(t) : t.entries[i].value = NULL}

\* The slots whose key is not in its home slot.
Displaced(t) == {i \in Occupied(t) : Home(t.entries[i].key, t.capacity) # i}

-----------------------------------------------------------------------------
\* Claims about the pointer-linked map

\* C1: if the most recent hashmap_set on a key stored a non-NULL value v,
\* hashmap_get of the key returns v, whatever calls, collisions and resizes
\* came in between.
RoundTrip == \A k \in Keys : last[k] # NULL => hashmap_get(h, k) = last[k]

\* A key updated to 2 before the table grew to 32 slots by a later call.
RoundTripWitness ==
    /\ h.capacity = 32
    /\ op.name = "set" /\ op.key # 2
    /\ last[2] = 2 /\ hashmap_get(h, 2) = 2

\* C2: hashmap_set(h, k, NULL) on a key that maps to v returns v, makes
\* hashmap_get(h, k) NULL, makes hashmap_length one smaller and leaves
\* hashmap_get of every other key as it was.
RemovalByNull ==
    [][(/\ SetCalled
        /\ op'.key # NULL /\ op'.value = NULL
        /\ hashmap_get(h, op'.key) # NULL)
       => /\ op'.ret = hashmap_get(h, op'.key)
          /\ hashmap_get(h', op'.key) = NULL
          /\ hashmap_length(h') = hashmap_length(h) - 1
          /\ \A k \in Keys \ {op'.key} : hashmap_get(h', k) = hashmap_get(h, k)]_vars

\* A removal that returned the value, in a table that holds other live keys.
RemovalByNullWitness ==
    /\ op.name = "set" /\ op.key # NULL /\ op.value = NULL /\ op.ret # NULL
    /\ hashmap_get(h, op.key) = NULL
    /\ Cardinality(LiveKeys(h)) >= 2
    /\ Displaced(h) # {}

\* C3: hashmap_length(h) is the number of keys for which hashmap_get returns
\* a non-NULL value.
OccupancyAccounting == hashmap_length(h) = Cardinality(LiveKeys(h))

\* C4: hashmap_set(h, k, NULL) on a key with no live entry returns NULL and
\* leaves hashmap_length and the result of hashmap_get of every key as they
\* were.
IdempotentRemoval ==
    [][(/\ SetCalled
        /\ op'.key # NULL /\ op'.value = NULL
        /\ hashmap_get(h, op'.key) = NULL)
       => /\ op'.ret = NULL
          /\ hashmap_length(h') = hashmap_length(h)
          /\ \A k \in Keys : hashmap_get(h', k) = hashmap_get(h, k)]_vars

\* The keys that were set to a non-NULL value last.
Inserted == {k \in Keys : last[k] # NULL}

\* C5: when N keys with the same home slot have been inserted, N from 1 to
\* capacity - 1, each of them is found in its own slot of the chain of that
\* home slot, with the value set for it.
NoLostUpdate ==
    LET home == [k \in Inserted |-> Home(k, h.capacity)]
    IN \A s \in {home[k] : k \in Inserted} :
           LET same == {k \in Inserted : home[k] = s}
           IN Cardinality(same) <= h.capacity - 1
              => /\ \A k \in same : /\ ChainFind(h, s, k) # NOENT
                                    /\ hashmap_get(h, k) = last[k]
                 /\ Cardinality({ChainFind(h, s, k) : k \in same})
                      = Cardinality(same)

\* The inserted keys with home slot s.
SameHome(s) == {k \in Inserted : Home(k, h.capacity) = s}

\* Fifteen keys with home slot 0 in a table of 16 slots that also holds a key
\* of another home slot.
NoLostUpdateWitness ==
    /\ h.capacity = 16
    /\ Cardinality(SameHome(0)) = 15
    /\ last[480] # NULL

\* C6: a hashmap_set call that resizes leaves the pairs with a non-NULL value
\* as they were, apart from the pair of the key being set.
ResizeStability ==
    [][(SetCalled /\ h'.trace.resizes > 0)
       => /\ {p \in LivePairs(h') : p[1] # op'.key}
               = {p \in LivePairs(h) : p[1] # op'.key}
          /\ hashmap_get(h', op'.key) = op'.value]_vars

\* A call that resized while a rehash was re-inserting, in a table that holds
\* live pairs.
ResizeStabilityWitness ==
    /\ op.name = "set"
    /\ h.trace.nested
    /\ Cardinality(LiveKeys(h)) >= 5

\* C7: a pass of hashmap_next calls without mutation returns every key with
\* a non-NULL value once, no other key, and then NULL.
IterationComplete ==
    pass.valid
    => /\ pass.ended
       /\ {pass.keys[n] : n \in 1 .. Len(pass.keys)} = LiveKeys(h)
       /\ Len(pass.keys) = Cardinality(LiveKeys(h))

\* A pass over a table with removed keys and displaced entries.
IterationCompleteWitness ==
    /\ pass.valid
    /\ Len(pass.keys) >= 3
    /\ Removed(h) # {}
    /\ Displaced(h) # {}

TypeOK ==
    /\ h.capacity \in Nat
    /\ h.count \in Int

-----------------------------------------------------------------------------
\* The maps with a fallback (src/unnamed/part_010).  The code of the update,
\* of the splice and of the displacement is that of src/unnamed/part_000.

\* The null table pointer.
NoMap == "NULL"

\* hashmap_new(fallback): calloc, then h->fallback = fallback.
fb_hashmap_new(fallback) ==
    [entries |-> <<>>, lastfree |-> NOENT, capacity |-> 0, count |-> 0,
     fallback |-> fallback,
     trace |-> [resizes |-> 0, depth |-> 0, nested |-> FALSE, fault |-> FALSE,
                oob |-> FALSE]]

FbNoTrace == fb_hashmap_new(NoMap).trace

RECURSIVE fb_set(_, _, _)
RECURSIVE fb_resize(_, _)
RECURSIVE fb_Rehash(_, _, _)
RECURSIVE fb_set_retry(_, _, _)

\* while (h->lastfree->key && h->lastfree >= h->entries) --h->lastfree;
\* At lastfree = entries - 1 the key is read before the bound is tested:
\* whatever that read returns, the loop ends there.
RECURSIVE fb_ScanLastFree(_, _)
fb_ScanLastFree(t, lf) ==
    IF lf < 0 THEN lf
    ELSE IF t.entries[lf].key # NULL THEN fb_ScanLastFree(t, lf - 1)
    ELSE lf

\* hashmap_set of one table, from the label retry on.
fb_set_retry(t, key, value) ==
    LET i == Home(key, t.capacity)
        collision == t.entries[i]
    IN IF collision.key = NULL
       THEN IF value = NULL THEN [h |-> t, ret |-> NULL]
            ELSE [h |-> StoreHome(t, i, key, value), ret |-> NULL]
       ELSE LET i2 == Home(collision.key, t.capacity)
                e == IF i2 = i THEN ChainFind(t, i, key) ELSE NOENT
            IN IF e # NOENT
               THEN [h |-> UpdateValue(t, e, value), ret |-> t.entries[e].value]
               ELSE LET lf == fb_ScanLastFree(t, t.lastfree)
                        t1 == [t EXCEPT !.lastfree = lf,
                                        !.trace.oob = @ \/ lf < 0]
                    IN IF lf < 0
                       THEN fb_set_retry(fb_resize(t1, NewSize(t1)), key, value)
                       ELSE IF i2 = i
                       THEN [h |-> SpliceNew(t1, i, lf, key, value), ret |-> NULL]
                       ELSE [h |-> Displace(t1, i, i2, lf, key, value), ret |-> NULL]

\* hashmap_set of one table.
fb_set(t, key, value) ==
    IF key = NULL THEN [h |-> t, ret |-> NULL]
    ELSE fb_set_retry(IF t.capacity = 0 THEN fb_resize(t, FirstCapacity) ELSE t,
                      key, value)

\* The rehash loop of hashmap_resize, from slot i of the old array on.
fb_Rehash(t, old, i) ==
    IF i >= old.capacity \/ t.trace.fault THEN t
    ELSE IF old.entries[i].key # NULL
         THEN fb_Rehash(fb_set(t, old.entries[i].key, old.entries[i].value).h,
                        old, i + 1)
         ELSE fb_Rehash(t, old, i + 1)

\* hashmap_resize: the count is not reset before the old entries are
\* re-inserted.
fb_resize(t, new_size) ==
    LET old == t
        fresh == [t EXCEPT !.entries = [i \in 0 .. new_size - 1 |-> ZeroEntry],
                           !.capacity = new_size,
                           !.lastfree = new_size - 1,
                           !.trace.resizes = @ + 1,
                           !.trace.depth = @ + 1,
                           !.trace.nested = @ \/ t.trace.depth > 0]
        done == IF old.capacity > 0 THEN fb_Rehash(fresh, old, 0) ELSE fresh
    IN [done EXCEPT !.trace.depth = @ - 1]

\* hashmap_get(h, key), h the table m[id].
RECURSIVE fb_hashmap_get(_, _, _)
fb_hashmap_get(m, id, key) ==
    LET t == m[id]
        e == IF t.capacity > 0
             THEN ChainFind(t, Home(key, t.capacity), key)
             ELSE NOENT
    IN IF e # NOENT THEN t.entries[e].value
       ELSE IF t.fallback # NoMap THEN fb_hashmap_get(m, t.fallback, key)
       ELSE NULL

\* hashmap_set with a write to the fallback when the key is stored there and
\* not in the table itself.
fb_hashmap_set_WriteThrough(m, id, key, value) ==
    LET t == m[id]
        local == t.capacity > 0 /\ ChainFind(t, Home(key, t.capacity), key) # NOENT
        target == IF ~local /\ t.fallback # NoMap
                     /\ fb_hashmap_get(m, t.fallback, key) # NULL
                  THEN t.fallback ELSE id
        r == fb_set([m[target] EXCEPT !.trace = FbNoTrace], key, value)
    IN [m |-> [m EXCEPT ![target] = r.h], ret |-> r.ret]

\* hashmap_set(h, key, value), h the table m[id].
fb_hashmap_set(m, id, key, value) ==
    LET r == fb_set([m[id] EXCEPT !.trace = FbNoTrace], key, value)
    IN [m |-> [m EXCEPT ![id] = r.h], ret |-> r.ret]

\* hashmap_clear(h), h the table m[id].
fb_hashmap_clear(m, id) ==
    IF m[id].capacity = 0 THEN m
    ELSE [m EXCEPT ![id].entries = <<>>, ![id].lastfree = NOENT,
                   ![id].capacity = 0, ![id].count = 0]

-----------------------------------------------------------------------------
\* The caller of the maps with a fallback: f = hashmap_new(NULL) and
\* h = hashmap_new(f).

MapIds == {"f", "h"}

\* The keys the caller draws from.
FbKeys == {2, 6, 480}

\* The calls cs on the table id.
On(id, cs) == [j \in 1 .. Len(cs) |-> <<id, cs[j][1], cs[j][2]>>]

\* The calls the caller makes before it chooses calls freely.
FbScripts ==
    {<<>>,
     On("f", <<(<<2, 2>>), (<<480, 1>>)>>) \o On("h", StoreSpread \o StorePair)}

FbNoOp == [name |-> "new", id |-> NoMap, key |-> NULL, value |-> NULL, ret |-> NULL]

InitFb(script) ==
    /\ maps = [id \in MapIds |->
                 fb_hashmap_new(IF id = "h" THEN "f" ELSE NoMap)]
    /\ fbLast = [id \in MapIds |-> [k \in Keys |-> NULL]]
    /\ fbOp = FbNoOp
    /\ fbTodo = script
    /\ fbCalls = 0

FbCallable ==
    IF fbTodo # <<>> THEN {Head(fbTodo)}
    ELSE IF fbCalls < MaxCalls
    THEN MapIds \X (FbKeys \cup {NULL}) \X (Vals \cup {NULL})
    ELSE {}

\* A call hashmap_set(m, key, value) on one of the two maps.
FbHashmapSet ==
    /\ \E c \in FbCallable :
         LET id == c[1]
             key == c[2]
             value == c[3]
             r == fb_hashmap_set(maps, id, key, value)
         IN /\ maps' = r.m
            /\ fbLast' = IF key = NULL THEN fbLast
                         ELSE [fbLast EXCEPT ![id][key] = value]
            /\ fbOp' = [name |-> "set", id |-> id, key |-> key, value |-> value,
                        ret |-> r.ret]
            /\ fbTodo' = IF fbTodo # <<>> THEN Tail(fbTodo) ELSE fbTodo
            /\ fbCalls' = IF fbTodo # <<>> THEN fbCalls ELSE fbCalls + 1
    /\ UNCHANGED restFb

\* A call hashmap_clear(m) on one of the two maps.
FbHashmapClear ==
    /\ fbTodo = <<>>
    /\ fbCalls < MaxCalls
    /\ \E id \in MapIds :
         /\ maps' = [fb_hashmap_clear(maps, id) EXCEPT ![id].trace = FbNoTrace]
         /\ fbLast' = [fbLast EXCEPT ![id] = [k \in Keys |-> NULL]]
         /\ fbOp' = [name |-> "clear", id |-> id, key |-> NULL, value |-> NULL,
                     ret |-> NULL]
    /\ fbCalls' = fbCalls + 1
    /\ UNCHANGED fbTodo
    /\ UNCHANGED restFb

-----------------------------------------------------------------------------
\* The index-linked map (src/unnamed/part_011)

\* An entry after calloc or memset(.., 0, ..): its next is 0, not -1.
IxZeroEntry == [key |-> NULL, value |-> NULL, next |-> 0]

\* Instrumentation of one call: the number of hashmap_resize calls it made
\* and whether one of its loops ran without end.
IxNoTrace == [resizes |-> 0, hang |-> FALSE]

\* new_hashmap(NULL): calloc.
new_hashmap ==
    [entries |-> <<>>, capacity |-> 0, count |-> 0, next_free |-> 0,
     fallback |-> NoMap, trace |-> IxNoTrace]

RECURSIVE ix_hashmap_set(_, _, _)
RECURSIVE ix_hashmap_resize(_, _)
RECURSIVE ix_Rehash(_, _, _)

\* while (i != -1 && h->entries[i].key) { if (key == h->entries[i].key) ..;
\* i = h->entries[i].next; }: the slot of key on the chain from i, or -1.
\* A walk of more than capacity steps is in a cycle; it is cut off when
\* fuel is used up.
RECURSIVE IxGetWalk(_, _, _, _)
IxGetWalk(t, i, key, fuel) ==
    IF i = -1 \/ fuel = 0 THEN -1
    ELSE IF t.entries[i].key = NULL THEN -1
    ELSE IF t.entries[i].key = key THEN i
    ELSE IxGetWalk(t, t.entries[i].next, key, fuel - 1)

\* hashmap_get on a table without fallback.
ix_hashmap_get(t, key) ==
    LET i == IF t.capacity > 0
             THEN IxGetWalk(t, Home(key, t.capacity), key, t.capacity + 1)
             ELSE -1
    IN IF i # -1 THEN t.entries[i].value ELSE NULL

\* for (int j = i; j != -1; j = h->entries[j].next)
\*     if (h->entries[j].key == key) ..: the slot of key, -1 at the end of
\* the chain, -2 when the walk does not end.
RECURSIVE IxSetWalk(_, _, _, _)
IxSetWalk(t, j, key, fuel) ==
    IF j = -1 THEN -1
    ELSE IF fuel = 0 THEN -2
    ELSE IF t.entries[j].key = key THEN j
    ELSE IxSetWalk(t, t.entries[j].next, key, fuel - 1)

\* while (h->entries[h->next_free].key) { if (h->next_free <= 0)
\* h->next_free = capacity - 1; else --h->next_free; }: the free slot, or -2
\* when the scan does not end.
RECURSIVE IxScanFree(_, _, _)
IxScanFree(t, nf, fuel) ==
    IF t.entries[nf].key = NULL THEN nf
    ELSE IF fuel = 0 THEN -2
    ELSE IxScanFree(t, IF nf <= 0 THEN t.capacity - 1 ELSE nf - 1, fuel - 1)

\* while (h->entries[prev].next != i) prev = h->entries[prev].next;
\* -2 when the walk does not end or leaves the array.
RECURSIVE IxWalkPrev(_, _, _, _)
IxWalkPrev(t, prev, i, fuel) ==
    IF prev < 0 \/ fuel = 0 THEN -2
    ELSE IF t.entries[prev].next = i THEN prev
    ELSE IxWalkPrev(t, t.entries[prev].next, i, fuel - 1)

\* Collision with the element in its main position: colliding@i -> noob@free
\* -> next.
IxSplice(t, i, free, key, value) ==
    [t EXCEPT !.entries[free] = [key |-> key, value |-> value,
                                 next |-> t.entries[i].next],
              !.entries[i].next = free]

\* IxDisplace that links the new key behind the element of the other chain.
IxDisplace_Splice(t, i, prev, free, key, value) ==
    IxSplice(t, i, free, key, value)

\* Collision with an element of another chain: it moves to free and the new
\* key takes slot i.
IxDisplace(t, i, prev, free, key, value) ==
    [t EXCEPT !.entries =
                 [[[@ EXCEPT ![prev].next = free]
                      EXCEPT ![free] = t.entries[i]]
                      EXCEPT ![i] = [key |-> key, value |-> value, next |-> -1]]]

\* hashmap_set after the growth checks.
IxStore(t, key, value) ==
    LET i == Home(key, t.capacity)
    IN IF t.entries[i].key = NULL
       THEN [h |-> [t EXCEPT !.entries[i] = [key |-> key, value |-> value,
                                            next |-> -1],
                             !.count = @ + 1],
             ret |-> NULL]
       ELSE LET j == IxSetWalk(t, i, key, t.capacity + 1)
            IN IF j >= 0
               THEN [h |-> [t EXCEPT !.entries[j].key = key,
                                     !.entries[j].value = value],
                     ret |-> t.entries[j].value]
               ELSE IF j = -2
               THEN [h |-> [t EXCEPT !.trace.hang = TRUE], ret |-> NULL]
               ELSE LET free == IxScanFree(t, t.next_free, 2 * t.capacity)
                        t1 == [t EXCEPT !.next_free = free]
                        i2 == Home(t.entries[i].key, t.capacity)
                        prev == IxWalkPrev(t, i2, i, t.capacity + 1)
                    IN IF free = -2 \/ (i2 # i /\ prev = -2)
                       THEN [h |-> [t EXCEPT !.trace.hang = TRUE], ret |-> NULL]
                       ELSE IF i2 = i
                       THEN [h |-> [IxSplice(t1, i, free, key, value)
                                       EXCEPT !.count = @ + 1],
                             ret |-> NULL]
                       ELSE [h |-> [IxDisplace(t1, i, prev, free, key, value)
                                       EXCEPT !.count = @ + 1],
                             ret |-> NULL]

\* hashmap_set
ix_hashmap_set(t, key, value) ==
    LET t1 == IF t.capacity = 0 THEN ix_hashmap_resize(t, FirstCapacity) ELSE t
        t2 == IF t1.count + 1 >= t1.capacity
              THEN ix_hashmap_resize(t1, t1.capacity * 2)
              ELSE t1
    IN IF t2.trace.hang THEN [h |-> t2, ret |-> NULL]
       ELSE IxStore(t2, key, value)

\* The rehash loop of hashmap_resize, from slot i of the old array on.
ix_Rehash(t, old, i) ==
    IF i >= old.capacity \/ t.trace.hang THEN t
    ELSE IF old.entries[i].key # NULL
         THEN ix_Rehash(ix_hashmap_set(t, old.entries[i].key,
                                       old.entries[i].value).h,
                        old, i + 1)
         ELSE ix_Rehash(t, old, i + 1)

\* hashmap_resize
ix_hashmap_resize(t, new_size) ==
    LET tmp == t
        fresh == [t EXCEPT !.entries = [i \in 0 .. new_size - 1 |-> IxZeroEntry],
                           !.capacity = new_size,
                           !.count = 0,
                           !.next_free = new_size - 1,
                           !.trace.resizes = @ + 1]
    IN IF tmp.capacity > 0 THEN ix_Rehash(fresh, tmp, 0) ELSE fresh

\* while (h->entries[i].key != key) { if (h->entries[i].next == -1) return
\* NULL; prev = i; i = h->entries[i].next; }: the slot of key and the slot
\* before it; i is -1 when the walk reaches the end of a chain and -2 when it
\* does not end.
RECURSIVE IxPopWalk(_, _, _, _, _)
IxPopWalk(t, prev, i, key, fuel) ==
    IF t.entries[i].key = key THEN [i |-> i, prev |-> prev]
    ELSE IF t.entries[i].next = -1 THEN [i |-> -1, prev |-> prev]
    ELSE IF fuel = 0 THEN [i |-> -2, prev |-> prev]
    ELSE IxPopWalk(t, i, t.entries[i].next, key, fuel - 1)

\* IxPopShift that clears slot i as if the entry had no successor.
IxPopShift_ClearOnly(t, i) ==
    [t EXCEPT !.entries[i] = IxZeroEntry]

\* The entry i has a successor i2: after@i2 moves to i and i2 is cleared.
IxPopShift(t, i) ==
    LET i2 == t.entries[i].next
    IN [t EXCEPT !.entries = [[@ EXCEPT ![i] = t.entries[i2]]
                                 EXCEPT ![i2] = IxZeroEntry],
                 !.next_free = IF i2 > @ THEN i2 ELSE @]

\* IxPopLast that leaves the link of the predecessor as it was.
IxPopLast_KeepLink(t, prev, i) ==
    [t EXCEPT !.entries[i] = IxZeroEntry]

\* The entry i has no successor: the link to it is ended and i is cleared.
IxPopLast(t, prev, i) ==
    [t EXCEPT !.entries = [(IF prev # i THEN [@ EXCEPT ![prev].next = -1] ELSE @)
                              EXCEPT ![i] = IxZeroEntry]]

\* hashmap_pop with the shrink test 3 * count < capacity in place of
\* count < capacity / 3.
ix_hashmap_pop_ExactThird(t, key) ==
    IF t.capacity = 0 THEN [h |-> t, ret |-> NULL]
    ELSE LET home == Home(key, t.capacity)
             w == IxPopWalk(t, home, home, key, t.capacity + 1)
         IN IF w.i = -1 THEN [h |-> t, ret |-> NULL]
            ELSE IF w.i = -2 THEN [h |-> [t EXCEPT !.trace.hang = TRUE], ret |-> NULL]
            ELSE LET ret == t.entries[w.i].value
                     t1 == IF t.entries[w.i].next # -1
                           THEN IxPopShift(t, w.i)
                           ELSE IxPopLast(t, w.prev, w.i)
                     t2 == [t1 EXCEPT !.count = @ - 1]
                 IN [h |-> IF t2.count > 16 /\ 3 * t2.count < t2.capacity
                           THEN ix_hashmap_resize(t2, t2.capacity \div 2)
                           ELSE t2,
                     ret |-> ret]

\* hashmap_pop
ix_hashmap_pop(t, key) ==
    IF t.capacity = 0 THEN [h |-> t, ret |-> NULL]
    ELSE LET home == Home(key, t.capacity)
             w == IxPopWalk(t, home, home, key, t.capacity + 1)
         IN IF w.i = -1 THEN [h |-> t, ret |-> NULL]
            ELSE IF w.i = -2 THEN [h |-> [t EXCEPT !.trace.hang = TRUE], ret |-> NULL]
            ELSE LET ret == t.entries[w.i].value
                     t1 == IF t.entries[w.i].next # -1
                           THEN IxPopShift(t, w.i)
                           ELSE IxPopLast(t, w.prev, w.i)
                     t2 == [t1 EXCEPT !.count = @ - 1]
                 IN [h |-> IF t2.count > 16 /\ t2.count < t2.capacity \div 3
                           THEN ix_hashmap_resize(t2, t2.capacity \div 2)
                           ELSE t2,
                     ret |-> ret]

-----------------------------------------------------------------------------
\* The caller of the index-linked map

\* The keys the caller draws from: 2, 4 and 6 have home slot 0, 480 has home
\* slot 15 and 32 has home slot 1.
IxKeys == {2, 4, 6, 32, 480}

\* Three keys with home slot 0 and then a key whose home slot 15 holds the
\* second of them: the chain is 2@0 -> 6@14 -> 4@13.
IxStoreChain == <<(<<"set", 2, 1>>), (<<"set", 4, 1>>), (<<"set", 6, 2>>),
                  (<<"set", 480, 1>>)>>

\* Fifteen keys in a 16-slot table: thirteen in the home slots 1 .. 13, key
\* 2 in its home slot 0 and key 4, with home slot 0 too, in slot 15.  The
\* next new key makes hashmap_set grow the table to 32 slots.
IxFill ==
    [j \in 1 .. 13 |-> <<"set", 32 * j, 1>>]
        \o <<(<<"set", 2, 1>>), (<<"set", 4, 1>>)>>

\* The keys of seq, each in one call name(key, value).
IxEach(name, seq, value) == [j \in 1 .. Len(seq) |-> <<name, seq[j], value>>]

\* The even keys 8, 10, .., 30 in rising order.
IxChainSeq == [j \in 1 .. 12 |-> 2 * (j + 3)]

\* Thirty-one keys, which grow the table to 32 slots, then a thirty-second
\* key, which grows it to 64, then eleven removals: 21 keys in 64 slots.
IxCrowd ==
    IxFill \o IxEach("set", IxChainSeq, 1)
        \o IxEach("set", <<448, 512, 544, 6, 480>>, 2)
        \o IxEach("pop", SubSeq(IxChainSeq, 1, 11), NULL)

\* Sixteen keys, which grow the table to 32 slots, then seven removals: 9
\* keys in 32 slots.
IxSparse ==
    IxFill \o <<(<<"set", 6, 1>>)>>
        \o IxEach("pop", [j \in 1 .. 7 |-> 32 * (j + 6)], NULL)

\* The calls the caller makes before it chooses calls freely.
IxScripts == {<<>>, IxStoreChain, IxFill, IxCrowd, IxSparse}

\* Where the key of a hashmap_pop call was on its chain before the call.
IxPlace(t, key) ==
    IF t.capacity = 0 \/ ix_hashmap_get(t, key) = NULL THEN "absent"
    ELSE LET home == Home(key, t.capacity)
             w == IxPopWalk(t, home, home, key, t.capacity + 1)
         IN IF w.i < 0 THEN "absent"
            ELSE IF w.i = home
            THEN (IF t.entries[w.i].next # -1 THEN "head" ELSE "alone")
            ELSE (IF t.entries[w.i].next # -1 THEN "middle" ELSE "tail")

IxNoOp == [name |-> "new", key |-> NULL, value |-> NULL, ret |-> NULL,
           place |-> "absent"]

InitIdx(script) ==
    /\ ix = new_hashmap
    /\ ixOp = IxNoOp
    /\ ixTodo = script
    /\ ixCalls = 0

IxCallable ==
    IF ixTodo # <<>> THEN {Head(ixTodo)}
    ELSE IF ixCalls < MaxCalls
    THEN ({"set"} \X IxKeys \X Vals) \cup ({"pop"} \X IxKeys \X {NULL})
    ELSE {}

\* A call hashmap_set(h, key, value).
IxHashmapSet ==
    /\ \E c \in IxCallable :
         /\ c[1] = "set"
         /\ LET r == ix_hashmap_set([ix EXCEPT !.trace = IxNoTrace], c[2], c[3])
            IN /\ ix' = r.h
               /\ ixOp' = [name |-> "set", key |-> c[2], value |-> c[3],
                           ret |-> r.ret, place |-> "absent"]
    /\ ixTodo' = IF ixTodo # <<>> THEN Tail(ixTodo) ELSE ixTodo
    /\ ixCalls' = IF ixTodo # <<>> THEN ixCalls ELSE ixCalls + 1
    /\ UNCHANGED restIdx

\* A call hashmap_pop(h, key).
IxHashmapPop ==
    /\ \E c \in IxCallable :
         /\ c[1] = "pop"
         /\ LET r == ix_hashmap_pop([ix EXCEPT !.trace = IxNoTrace], c[2])
            IN /\ ix' = r.h
               /\ ixOp' = [name |-> "pop", key |-> c[2], value |-> NULL,
                           ret |-> r.ret, place |-> IxPlace(ix, c[2])]
    /\ ixTodo' = IF ixTodo # <<>> THEN Tail(ixTodo) ELSE ixTodo
    /\ ixCalls' = IF ixTodo # <<>> THEN ixCalls ELSE ixCalls + 1
    /\ UNCHANGED restIdx

-----------------------------------------------------------------------------
\* The first pointer-linked map (src/hashmap.c)

\* new_hashmap(NULL): calloc(1, sizeof(hashmap_t)).
v1_new_hashmap == fb_hashmap_new(NoMap)

RECURSIVE v1_hashmap_set(_, _, _)
RECURSIVE v1_hashmap_resize(_, _)
RECURSIVE v1_Rehash(_, _, _)
RECURSIVE v1_set_retry(_, _, _)

\* for (e = &h->entries[i]; e; e = e->next) if (e->key == key) ...: the
\* entry of the chain from e that holds key, or NOENT.
RECURSIVE V1Find(_, _, _)
V1Find(t, e, key) ==
    IF e = NOENT THEN NOENT
    ELSE IF t.entries[e].key = key THEN e
    ELSE V1Find(t, t.entries[e].next, key)

\* hashmap_get on a table without fallback.
v1_hashmap_get(t, key) ==
    LET e == IF t.capacity > 0 THEN V1Find(t, Home(key, t.capacity), key)
             ELSE NOENT
    IN IF e # NOENT THEN t.entries[e].value ELSE NULL

\* collision->key = key; collision->value = value; ++h->count; the link of
\* the slot is left as calloc made it.
V1StoreHome(t, i, key, value) ==
    [t EXCEPT !.entries[i].key = key, !.entries[i].value = value,
              !.count = @ + 1]

\* hashmap_set from the label retry on: only the home slot is compared with
\* the key.
v1_set_retry(t, key, value) ==
    LET i == Home(key, t.capacity)
        collision == t.entries[i]
    IN IF t.trace.fault THEN [h |-> t, ret |-> NULL]
       ELSE IF collision.key = key
       THEN [h |-> UpdateValue(t, i, value), ret |-> collision.value]
       ELSE IF value = NULL THEN [h |-> t, ret |-> NULL]
       ELSE IF collision.key = NULL
       THEN [h |-> V1StoreHome(t, i, key, value), ret |-> NULL]
       ELSE LET lf == fb_ScanLastFree(t, t.lastfree)
                t1 == [t EXCEPT !.lastfree = lf, !.trace.oob = @ \/ lf < 0]
                i2 == Home(collision.key, t.capacity)
            IN IF lf < 0
               THEN v1_set_retry(v1_hashmap_resize(t1, NewSize(t1)), key, value)
               ELSE IF i2 = i
               THEN [h |-> SpliceNew(t1, i, lf, key, value), ret |-> NULL]
               ELSE [h |-> Displace(t1, i, i2, lf, key, value), ret |-> NULL]

\* hashmap_set
v1_hashmap_set(t, key, value) ==
    IF key = NULL THEN [h |-> t, ret |-> NULL]
    ELSE v1_set_retry(IF t.capacity = 0
                      THEN v1_hashmap_resize(t, FirstCapacity) ELSE t,
                      key, value)

\* The rehash loop of hashmap_resize, from slot i of the old array on.
v1_Rehash(t, old, i) ==
    IF i >= old.capacity \/ t.trace.fault THEN t
    ELSE IF old.entries[i].key # NULL
         THEN v1_Rehash(v1_hashmap_set(t, old.entries[i].key,
                                       old.entries[i].value).h,
                        old, i + 1)
         ELSE v1_Rehash(t, old, i + 1)

\* hashmap_resize: calloc, capacity, lastfree; the count is left as it is.
v1_hashmap_resize(t, new_size) ==
    LET tmp == t
        fresh == [t EXCEPT !.entries = [i \in 0 .. new_size - 1 |-> ZeroEntry],
                           !.capacity = new_size,
                           !.lastfree = new_size - 1,
                           !.trace.resizes = @ + 1]
    IN IF tmp.capacity > 0 THEN v1_Rehash(fresh, tmp, 0) ELSE fresh

-----------------------------------------------------------------------------
\* The caller of the first pointer-linked map

\* The calls the caller makes before it chooses calls freely.
V1Scripts == {<<>>, StoreSpread \o StorePair}

V1NoOp == [name |-> "new", key |-> NULL, value |-> NULL, ret |-> NULL, old |-> NULL]

InitFirst(script) ==
    /\ fm = v1_new_hashmap
    /\ fmOp = V1NoOp
    /\ fmTodo = script
    /\ fmCalls = 0

V1Callable ==
    IF fm.trace.fault THEN {}
    ELSE IF fmTodo # <<>> THEN {Head(fmTodo)}
    ELSE IF fmCalls < MaxCalls
    THEN ActiveKeys \X (Vals \cup {NULL})
    ELSE {}

\* A call hashmap_set(h, key, value); old is what hashmap_get(h, key)
\* returned before it.
V1HashmapSet ==
    /\ \E c \in V1Callable :
         LET r == v1_hashmap_set([fm EXCEPT !.trace = FbNoTrace], c[1], c[2])
         IN /\ fm' = r.h
            /\ fmOp' = [name |-> "set", key |-> c[1], value |-> c[2],
                        ret |-> r.ret, old |-> v1_hashmap_get(fm, c[1])]
    /\ fmTodo' = IF fmTodo # <<>> THEN Tail(fmTodo) ELSE fmTodo
    /\ fmCalls' = IF fmTodo # <<>> THEN fmCalls ELSE fmCalls + 1
    /\ UNCHANGED restFirst

-----------------------------------------------------------------------------
\* The hash set (src/hashset.c, lines 147-297)

\* An entry of the set after calloc or memset(.., 0, ..): its next is 0.
HsZeroEntry == [item |-> NULL, next |-> 0]

\* new_hashset: calloc(1, sizeof(hashset_t)).
new_hashset ==
    [entries |-> <<>>, capacity |-> 0, occupancy |-> 0, next_free |-> 0,
     trace |-> IxNoTrace]

RECURSIVE hashset_add(_, _)
RECURSIVE hashset_resize(_, _)
RECURSIVE HsRehash(_, _, _)

\* while (i != -1 && h->entries[i].item) { if (item == h->entries[i].item)
\* return true; i = h->entries[i].next; }: the slot of item on the chain from
\* i, or -1.  A walk of more than capacity steps is in a cycle; it is cut
\* off when fuel is used up.
RECURSIVE HsContainsWalk(_, _, _, _)
HsContainsWalk(t, i, item, fuel) ==
    IF i = -1 \/ fuel = 0 THEN -1
    ELSE IF t.entries[i].item = NULL THEN -1
    ELSE IF t.entries[i].item = item THEN i
    ELSE HsContainsWalk(t, t.entries[i].next, item, fuel - 1)

\* hashset_contains
hashset_contains(t, item) ==
    IF t.capacity = 0 THEN FALSE
    ELSE HsContainsWalk(t, Home(item, t.capacity), item, t.capacity + 1) # -1

\* for (int j = i; j != -1; j = h->entries[j].next)
\*     if (h->entries[j].item == item) return false;
\* the slot of item, -1 at the end of the chain, -2 when the walk does not end.
RECURSIVE HsAddWalk(_, _, _, _)
HsAddWalk(t, j, item, fuel) ==
    IF j = -1 THEN -1
    ELSE IF fuel = 0 THEN -2
    ELSE IF t.entries[j].item = item THEN j
    ELSE HsAddWalk(t, t.entries[j].next, item, fuel - 1)

\* while (h->entries[h->next_free].item) { if (h->next_free <= 0)
\* h->next_free = capacity - 1; else --h->next_free; }: the free slot, or -2
\* when every slot is taken and the scan does not end.
RECURSIVE HsScanFree(_, _, _)
HsScanFree(t, nf, fuel) ==
    IF t.entries[nf].item = NULL THEN nf
    ELSE IF fuel = 0 THEN -2
    ELSE HsScanFree(t, IF nf <= 0 THEN t.capacity - 1 ELSE nf - 1, fuel - 1)

\* while (h->entries[prev].next != i) prev = h->entries[prev].next;
\* -2 when the walk does not end or leaves the array.
RECURSIVE HsWalkPrev(_, _, _, _)
HsWalkPrev(t, prev, i, fuel) ==
    IF prev < 0 \/ fuel = 0 THEN -2
    ELSE IF t.entries[prev].next = i THEN prev
    ELSE HsWalkPrev(t, t.entries[prev].next, i, fuel - 1)

\* No collision: the item goes to its home slot i and the function returns
\* before ++h->occupancy.
HsStoreHome(t, i, item) ==
    [t EXCEPT !.entries[i] = [item |-> item, next |-> -1]]

\* Collision with the element in its main position: colliding@i -> noob@free
\* -> next.
HsSplice(t, i, free, item) ==
    [t EXCEPT !.entries[free] = [item |-> item, next |-> t.entries[i].next],
              !.entries[i].next = free]

\* Collision with an element of another chain: it moves to free and the new
\* item takes slot i.
HsDisplace(t, i, prev, free, item) ==
    [t EXCEPT !.entries =
                 [[[@ EXCEPT ![prev].next = free]
                      EXCEPT ![free] = t.entries[i]]
                      EXCEPT ![i] = [item |-> item, next |-> -1]]]

\* hashset_add after the growth checks.
HsStore(t, item) ==
    LET i == Home(item, t.capacity)
    IN IF t.entries[i].item = NULL
       THEN [h |-> HsStoreHome(t, i, item), ret |-> TRUE]
       ELSE LET j == HsAddWalk(t, i, item, t.capacity + 1)
            IN IF j >= 0 THEN [h |-> t, ret |-> FALSE]
               ELSE IF j = -2
               THEN [h |-> [t EXCEPT !.trace.hang = TRUE], ret |-> FALSE]
               ELSE LET free == HsScanFree(t, t.next_free, 2 * t.capacity)
                        t1 == [t EXCEPT !.next_free = free]
                        i2 == Home(t.entries[i].item, t.capacity)
                        prev == HsWalkPrev(t, i2, i, t.capacity + 1)
                    IN IF free = -2 \/ (i2 # i /\ prev = -2)
                       THEN [h |-> [t EXCEPT !.trace.hang = TRUE], ret |-> FALSE]
                       ELSE IF i2 = i
                       THEN [h |-> [HsSplice(t1, i, free, item)
                                       EXCEPT !.occupancy = @ + 1],
                             ret |-> TRUE]
                       ELSE [h |-> [HsDisplace(t1, i, prev, free, item)
                                       EXCEPT !.occupancy = @ + 1],
                             ret |-> TRUE]

\* hashset_add
hashset_add(t, item) ==
    LET t1 == IF t.capacity = 0 THEN hashset_resize(t, FirstCapacity) ELSE t
        t2 == IF t1.occupancy + 1 >= t1.capacity
              THEN hashset_resize(t1, t1.capacity * 2)
              ELSE t1
    IN IF t2.trace.hang THEN [h |-> t2, ret |-> FALSE]
       ELSE HsStore(t2, item)

\* The rehash loop of hashset_resize, from slot i of the old array on.
HsRehash(t, old, i) ==
    IF i >= old.capacity \/ t.trace.hang THEN t
    ELSE IF old.entries[i].item # NULL
         THEN HsRehash(hashset_add(t, old.entries[i].item).h, old, i + 1)
         ELSE HsRehash(t, old, i + 1)

\* hashset_resize
hashset_resize(t, new_size) ==
    LET tmp == t
        fresh == [t EXCEPT !.entries = [i \in 0 .. new_size - 1 |-> HsZeroEntry],
                           !.capacity = new_size,
                           !.occupancy = 0,
                           !.next_free = new_size - 1,
                           !.trace.resizes = @ + 1]
    IN IF tmp.capacity > 0 THEN HsRehash(fresh, tmp, 0) ELSE fresh

\* while (h->entries[i].item != item) { if (h->entries[i].next == -1) return
\* false; prev = i; i = h->entries[i].next; }: the slot of item and the slot
\* before it; i is -1 when the walk reaches the end of a chain and -2 when it
\* does not end.
RECURSIVE HsRemoveWalk(_, _, _, _, _)
HsRemoveWalk(t, prev, i, item, fuel) ==
    IF t.entries[i].item = item THEN [i |-> i, prev |-> prev]
    ELSE IF t.entries[i].next = -1 THEN [i |-> -1, prev |-> prev]
    ELSE IF fuel = 0 THEN [i |-> -2, prev |-> prev]
    ELSE HsRemoveWalk(t, i, t.entries[i].next, item, fuel - 1)

\* The entry i has a successor i2: after@i2 moves to i and i2 is cleared.
HsRemoveShift(t, i) ==
    LET i2 == t.entries[i].next
    IN [t EXCEPT !.entries = [[@ EXCEPT ![i] = t.entries[i2]]
                                 EXCEPT ![i2] = HsZeroEntry],
                 !.next_free = IF i2 > @ THEN i2 ELSE @]

\* The entry i has no successor: the link to it is ended and i is cleared.
HsRemoveLast(t, prev, i) ==
    [t EXCEPT !.entries = [(IF prev # i THEN [@ EXCEPT ![prev].next = -1] ELSE @)
                              EXCEPT ![i] = HsZeroEntry]]

\* hashset_remove
hashset_remove(t, item) ==
    IF t.capacity = 0 THEN [h |-> t, ret |-> FALSE]
    ELSE LET home == Home(item, t.capacity)
             w == HsRemoveWalk(t, home, home, item, t.capacity + 1)
         IN IF w.i = -1 THEN [h |-> t, ret |-> FALSE]
            ELSE IF w.i = -2
            THEN [h |-> [t EXCEPT !.trace.hang = TRUE], ret |-> FALSE]
            ELSE LET t1 == IF t.entries[w.i].next # -1
                           THEN HsRemoveShift(t, w.i)
                           ELSE HsRemoveLast(t, w.prev, w.i)
                     t2 == [t1 EXCEPT !.occupancy = @ - 1]
                 IN [h |-> IF t2.occupancy > 16 /\ t2.occupancy < t2.capacity \div 3
                           THEN hashset_resize(t2, t2.capacity \div 2)
                           ELSE t2,
                     ret |-> TRUE]

-----------------------------------------------------------------------------
\* The caller of the hash set

\* The items the caller draws from: 2, 4 and 6 have home slot 0, 32 has home
\* slot 1 and 480 has home slot 15.
HsItems == {2, 4, 6, 32, 480}

\* Fifteen items in fifteen home slots: slots 0 to 13 and 15.
HsFill == [j \in 1 .. 13 |-> <<"add", 32 * j>>] \o <<(<<"add", 2>>), (<<"add", 480>>)>>

\* Three items with home slot 0 and then an item whose home slot 15 holds
\* the second of them.
HsChain == <<(<<"add", 2>>), (<<"add", 4>>), (<<"add", 6>>), (<<"add", 480>>)>>

\* The calls the caller makes before it chooses calls freely.
HsScripts == {<<>>, HsFill, HsChain}

HsNoOp == [name |-> "new", item |-> NULL, ret |-> FALSE]

InitSet(script) ==
    /\ hs = new_hashset
    /\ hsOp = HsNoOp
    /\ hsTodo = script
    /\ hsCalls = 0

HsCallable ==
    IF hsTodo # <<>> THEN {Head(hsTodo)}
    ELSE IF hsCalls < MaxCalls
    THEN {"add", "remove"} \X HsItems
    ELSE {}

\* A call hashset_add(h, item).
HashsetAdd ==
    /\ \E c \in HsCallable :
         /\ c[1] = "add"
         /\ LET r == hashset_add([hs EXCEPT !.trace = IxNoTrace], c[2])
            IN /\ hs' = r.h
               /\ hsOp' = [name |-> "add", item |-> c[2], ret |-> r.ret]
    /\ hsTodo' = IF hsTodo # <<>> THEN Tail(hsTodo) ELSE hsTodo
    /\ hsCalls' = IF hsTodo # <<>> THEN hsCalls ELSE hsCalls + 1
    /\ UNCHANGED restSet

\* A call hashset_remove(h, item).
HashsetRemove ==
    /\ \E c \in HsCallable :
         /\ c[1] = "remove"
         /\ LET r == hashset_remove([hs EXCEPT !.trace = IxNoTrace], c[2])
            IN /\ hs' = r.h
               /\ hsOp' = [name |-> "remove", item |-> c[2], ret |-> r.ret]
    /\ hsTodo' = IF hsTodo # <<>> THEN Tail(hsTodo) ELSE hsTodo
    /\ hsCalls' = IF hsTodo # <<>> THEN hsCalls ELSE hsCalls + 1
    /\ UNCHANGED restSet

-----------------------------------------------------------------------------
\* The byte intern table (src/unnamed/part_006, lines 1-152)

\* The bits of the size_t hash that the model keeps.  The home slot is
\* hash & (capacity - 1) with capacity at most 2^HashBits, and the low bits
\* of a product and of an exclusive or depend on the low bits of the
\* operands only, so the arithmetic modulo 2^HashBits gives the home slots
\* of the 64-bit arithmetic.
HashBits == 16

\* 1000003, the multiplier of hash_mem and hash_str.
HashMultiplier == 1000003

\* The number of bytes that hash_mem reads at most: i = len > 128 ? 128 : len.
HashedPrefix == 128

RECURSIVE BitXor(_, _)
\* a ^ b on naturals.
BitXor(a, b) ==
    IF a = 0 THEN b
    ELSE IF b = 0 THEN a
    ELSE (IF a % 2 # b % 2 THEN 1 ELSE 0) + 2 * BitXor(a \div 2, b \div 2)

\* while (i--) h = (1000003*h) ^ *p++; over the bytes bs from position k on.
\* h is a size_t and never negative; the test of it makes the value of h
\* known at every round of the loop.
RECURSIVE HashLoop(_, _, _)
HashLoop(x, bs, k) ==
    IF k > Len(bs) \/ k > HashedPrefix \/ x < 0 THEN x
    ELSE HashLoop(BitXor(((HashMultiplier % Pow2(HashBits)) * x) % Pow2(HashBits),
                         bs[k]),
                  bs, k + 1)

\* hash_mem of the len = Len(bs) bytes bs.  The test h == 0 is on the whole
\* word; the buffers of the model have a hash whose low bits are not all 0,
\* so the whole word is not 0 either.
hash_mem(bs) ==
    IF Len(bs) = 0 THEN 0
    ELSE LET x == HashLoop(BitXor(bs[1] * 128, Len(bs)), bs, 1)
         IN IF x = 0 THEN ZeroHash % Pow2(HashBits) ELSE x

\* The contents the caller interns first: one-byte buffers.  At capacity 16
\* the bytes 3, 19 and 35 have home slot 0, 12 and 28 have home slot 15, 13
\* and 29 have home slot 14.
FirstBytes == <<3, 19, 12, 35, 13, 28, 29, 1, 2, 4, 5, 6, 7, 8, 9>>

\* Two buffers of 129 bytes that differ in the last byte only, the first
\* byte that hash_mem does not read.
LongA == [j \in 1 .. HashedPrefix + 1 |-> 1]
LongB == [j \in 1 .. HashedPrefix + 1 |-> IF j > HashedPrefix THEN 2 ELSE 1]

\* The contents the caller draws from freely: three of the first ones, a new
\* one-byte buffer, a two-byte buffer that shares its home slot and its
\* first byte with the buffer <<7>>, and the two long buffers.
FreeContents == {<<3>>, <<19>>, <<35>>, <<10>>, <<7, 7>>, LongA, LongB}

Contents == {<<FirstBytes[j]>> : j \in 1 .. Len(FirstBytes)} \cup FreeContents

\* hash_mem of the contents of the model, computed once.
HashTable == [bs \in Contents |-> hash_mem(bs)]

\* The table after program start: interned = NULL, lastfree = NULL, capacity
\* = 0, count = 0; interned is the number of the array it points to (0 for
\* NULL) and entries is that array.  heap[a] is the buffer at address a: its
\* bytes, who allocated it and how often it was passed to free.  arrays[n]
\* is how often the n-th array that calloc returned was passed to free.
NoIntern ==
    [interned |-> 0, entries |-> <<>>, lastfree |-> NOENT, capacity |-> 0,
     count |-> 0, heap |-> <<>>, arrays |-> <<>>, trace |-> NoTrace]

\* An entry after calloc.
InZeroEntry == [mem |-> NULL, len |-> 0, next |-> NOENT]

\* The bytes at address mem.
BytesAt(w, mem) == w.heap[mem].bytes

\* (int)(hash_mem(mem, len) & (size_t)(capacity-1))
InHome(w, mem) ==
    LET bs == BytesAt(w, mem)
    IN BitAnd(IF bs \in DOMAIN HashTable THEN HashTable[bs] ELSE hash_mem(bs),
              w.capacity - 1)

\* malloc(len) and memcpy, or the caller's allocation of a buffer: a block
\* at an address that no other block has.
Alloc(w, bs, by) ==
    [w EXCEPT !.heap = Append(@, [bytes |-> bs, by |-> by, frees |-> 0])]

\* free(mem)
Free(w, mem) == [w EXCEPT !.heap[mem].frees = @ + 1]

RECURSIVE intern_insert(_, _)
RECURSIVE rehash(_, _)
RECURSIVE InRehash(_, _, _)

\* The chain walk of lookup with a memcmp of the hashed bytes only.
RECURSIVE InFind_HashedBytes(_, _, _)
InFind_HashedBytes(w, e, mem) ==
    IF e = NOENT THEN NULL
    ELSE IF w.entries[e].mem = NULL THEN NULL
    ELSE IF /\ w.entries[e].len = Len(BytesAt(w, mem))
            /\ \A j \in 1 .. Len(BytesAt(w, mem)) :
                   j <= HashedPrefix
                   => BytesAt(w, w.entries[e].mem)[j] = BytesAt(w, mem)[j]
         THEN w.entries[e].mem
    ELSE InFind_HashedBytes(w, w.entries[e].next, mem)

\* for (e = &interned[i]; e && e->mem; e = e->next)
\*     if (e->len == len && memcmp(mem, e->mem, len) == 0) return e->mem;
RECURSIVE InFind(_, _, _)
InFind(w, e, mem) ==
    IF e = NOENT THEN NULL
    ELSE IF w.entries[e].mem = NULL THEN NULL
    ELSE IF /\ w.entries[e].len = Len(BytesAt(w, mem))
            /\ BytesAt(w, w.entries[e].mem) = BytesAt(w, mem)
         THEN w.entries[e].mem
    ELSE InFind(w, w.entries[e].next, mem)

\* lookup that compares with the entry in the home slot only.
lookup_HomeOnly(w, mem) ==
    IF w.capacity = 0 \/ mem = NULL THEN NULL
    ELSE LET e == InHome(w, mem)
         IN IF /\ w.entries[e].mem # NULL
               /\ BytesAt(w, w.entries[e].mem) = BytesAt(w, mem)
            THEN w.entries[e].mem
            ELSE NULL

\* interned is NULL and capacity is not 0: the state intern_free leaves.
NullBase(w) == w.interned = 0 /\ w.capacity # 0

\* lookup(mem, len) reads e->mem at e = &interned[i] with interned NULL and
\* i not 0: an address in the first page, which no build maps.
LookupFaults(w, mem) == mem # NULL /\ NullBase(w) /\ InHome(w, mem) # 0

\* lookup.  With interned NULL and home slot 0, e is NULL and the loop ends
\* before it reads an entry.
lookup(w, mem) ==
    IF w.capacity = 0 \/ mem = NULL THEN NULL
    ELSE IF w.interned = 0 THEN NULL
    ELSE InFind(w, InHome(w, mem), mem)

\* while (lastfree >= interned && lastfree->mem) --lastfree;
RECURSIVE InScanLastFree(_, _)
InScanLastFree(w, lf) ==
    IF lf >= 0 /\ w.entries[lf].mem # NULL THEN InScanLastFree(w, lf - 1) ELSE lf

\* prev = &interned[i2]; while (prev->next != collision) prev = prev->next;
\* NOENT when the walk runs off the chain.
RECURSIVE InWalkPrev(_, _, _)
InWalkPrev(w, prev, i) ==
    IF prev = NOENT THEN NOENT
    ELSE IF w.entries[prev].next = i THEN prev
    ELSE InWalkPrev(w, w.entries[prev].next, i)

\* intern_insert
intern_insert(w, mem) ==
    IF mem = NULL \/ Len(BytesAt(w, mem)) = 0 THEN w
    ELSE
    LET len == Len(BytesAt(w, mem))
        w1 == IF w.capacity = 0 THEN rehash(w, FirstCapacity)
              ELSE IF w.count + 1 >= w.capacity THEN rehash(w, w.capacity * 2)
              ELSE w
        i == InHome(w1, mem)
    IN IF w1.trace.fault THEN w1
       ELSE IF w1.interned = 0 THEN [w1 EXCEPT !.trace.fault = TRUE]
       ELSE IF w1.entries[i].mem = NULL
       THEN [w1 EXCEPT !.entries[i].mem = mem,
                       !.entries[i].len = len,
                       !.count = @ + 1]
       ELSE LET lf == InScanLastFree(w1, w1.lastfree)
                w2 == [w1 EXCEPT !.lastfree = lf]
                i2 == InHome(w1, w1.entries[i].mem)
                prev == InWalkPrev(w1, i2, i)
            IN IF lf = NOENT \/ (i2 # i /\ prev = NOENT)
               THEN [w2 EXCEPT !.trace.fault = TRUE]
               ELSE IF i2 = i
               THEN [w2 EXCEPT !.entries[lf] = [mem |-> mem, len |-> len,
                                                next |-> w1.entries[i].next],
                               !.entries[i].next = lf,
                               !.count = @ + 1]
               ELSE [w2 EXCEPT !.entries =
                                  [[[@ EXCEPT ![lf] = w1.entries[i]]
                                       EXCEPT ![prev].next = lf]
                                       EXCEPT ![i] = [mem |-> mem, len |-> len,
                                                      next |-> NOENT]],
                               !.count = @ + 1]

\* The loop of rehash over the old array, from slot i on.
InRehash(w, old, i) ==
    IF i >= old.capacity \/ w.trace.fault THEN w
    ELSE IF old.entries[i].mem # NULL
         THEN InRehash(intern_insert(w, old.entries[i].mem), old, i + 1)
         ELSE InRehash(w, old, i + 1)

\* rehash without free(old).
rehash_KeepOld(w, new_size) ==
    LET old == w
        fresh == [w EXCEPT !.interned = Len(w.arrays) + 1,
                           !.arrays = Append(@, 0),
                           !.entries = [i \in 0 .. new_size - 1 |-> InZeroEntry],
                           !.capacity = new_size,
                           !.count = 0,
                           !.lastfree = new_size - 1,
                           !.trace.resizes = @ + 1]
    IN IF old.interned # 0 THEN InRehash(fresh, old, 0) ELSE fresh

\* rehash
rehash(w, new_size) ==
    LET old == w
        fresh == [w EXCEPT !.interned = Len(w.arrays) + 1,
                           !.arrays = Append(@, 0),
                           !.entries = [i \in 0 .. new_size - 1 |-> InZeroEntry],
                           !.capacity = new_size,
                           !.count = 0,
                           !.lastfree = new_size - 1,
                           !.trace.resizes = @ + 1]
    IN IF old.interned # 0
       THEN [InRehash(fresh, old, 0) EXCEPT !.arrays[old.interned] = @ + 1]
       ELSE fresh

\* intern_bytes_transfer that frees the interned duplicate, not mem.
intern_bytes_transfer_FreeDup(w, mem) ==
    IF mem = NULL \/ Len(BytesAt(w, mem)) = 0 THEN [w |-> w, ret |-> NULL]
    ELSE LET dup == lookup(w, mem)
         IN IF dup # NULL THEN [w |-> Free(w, dup), ret |-> dup]
            ELSE [w |-> intern_insert(w, mem), ret |-> mem]

\* intern_bytes_transfer
intern_bytes_transfer(w, mem) ==
    IF mem = NULL \/ Len(BytesAt(w, mem)) = 0 THEN [w |-> w, ret |-> NULL]
    ELSE IF LookupFaults(w, mem)
    THEN [w |-> [w EXCEPT !.trace.fault = TRUE], ret |-> NULL]
    ELSE LET dup == lookup(w, mem)
         IN IF dup # NULL THEN [w |-> Free(w, mem), ret |-> dup]
            ELSE [w |-> intern_insert(w, mem), ret |-> mem]

\* intern_bytes
intern_bytes(w, mem) ==
    IF mem = NULL \/ Len(BytesAt(w, mem)) = 0 THEN [w |-> w, ret |-> NULL]
    ELSE IF LookupFaults(w, mem)
    THEN [w |-> [w EXCEPT !.trace.fault = TRUE], ret |-> NULL]
    ELSE LET dup == lookup(w, mem)
         IN IF dup # NULL THEN [w |-> w, ret |-> dup]
            ELSE LET w1 == Alloc(w, BytesAt(w, mem), "intern")
                     copy == Len(w1.heap)
                 IN [w |-> intern_insert(w1, copy), ret |-> copy]

\* for (i = 0; i < capacity; i++) if (interned[i].mem) free(interned[i].mem);
RECURSIVE InFreeAll(_, _)
InFreeAll(w, i) ==
    IF i >= w.capacity THEN w
    ELSE InFreeAll(IF w.entries[i].mem # NULL THEN Free(w, w.entries[i].mem) ELSE w,
                   i + 1)

\* intern_free: capacity, count and lastfree are left as they are.
intern_free(w) ==
    IF w.interned = 0 THEN w
    ELSE [InFreeAll(w, 0) EXCEPT !.arrays[w.interned] = @ + 1,
                                 !.interned = 0]

-----------------------------------------------------------------------------
\* The caller of the byte intern table

\* The first calls: the buffers of FirstBytes, every third one handed over
\* with intern_bytes_transfer.
InFirst ==
    [j \in 1 .. Len(FirstBytes) |->
        <<(IF j % 3 = 2 THEN "intern_bytes_transfer" ELSE "intern_bytes"),
          (<<FirstBytes[j]>>)>>]

\* The calls the caller makes before it chooses calls freely.
InScripts == {<<>>, SubSeq(InFirst, 1, 5), InFirst}

InitIntern(script) ==
    /\ it = NoIntern
    /\ itLog = <<>>
    /\ itTodo = script
    /\ itCalls = 0

\* The table is usable: intern_free has not been called on an allocated
\* table (it is the last call of a run).
InLive ==
    IF itLog = <<>> \/ it.capacity = 0 THEN TRUE
    ELSE itLog[Len(itLog)].name # "intern_free"

InCallable ==
    IF itTodo # <<>> THEN {Head(itTodo)}
    ELSE IF itCalls < MaxCalls /\ InLive
    THEN {"intern_bytes", "intern_bytes_transfer"} \X FreeContents
    ELSE {}

\* A call intern_bytes(b, len) on a buffer b of the caller with the bytes
\* c[2].
InternBytes ==
    /\ \E c \in InCallable :
         /\ c[1] = "intern_bytes"
         /\ LET w0 == Alloc([it EXCEPT !.trace = NoTrace], c[2], "caller")
                buf == Len(w0.heap)
                r == intern_bytes(w0, buf)
            IN /\ it' = r.w
               /\ itLog' = Append(itLog, [name |-> "intern_bytes", bytes |-> c[2],
                                          buf |-> buf, ret |-> r.ret,
                                          capacity |-> r.w.capacity])
    /\ itTodo' = IF itTodo # <<>> THEN Tail(itTodo) ELSE itTodo
    /\ itCalls' = IF itTodo # <<>> THEN itCalls ELSE itCalls + 1
    /\ UNCHANGED restIntern

\* A call intern_bytes_transfer(b, len) on a buffer b that the caller has
\* just allocated and filled with the bytes c[2].
InternBytesTransfer ==
    /\ \E c \in InCallable :
         /\ c[1] = "intern_bytes_transfer"
         /\ LET w0 == Alloc([it EXCEPT !.trace = NoTrace], c[2], "caller")
                buf == Len(w0.heap)
                r == intern_bytes_transfer(w0, buf)
            IN /\ it' = r.w
               /\ itLog' = Append(itLog, [name |-> "intern_bytes_transfer",
                                          bytes |-> c[2], buf |-> buf,
                                          ret |-> r.ret,
                                          capacity |-> r.w.capacity])
    /\ itTodo' = IF itTodo # <<>> THEN Tail(itTodo) ELSE itTodo
    /\ itCalls' = IF itTodo # <<>> THEN itCalls ELSE itCalls + 1
    /\ UNCHANGED restIntern

\* The call intern_free() that ends a run.
InternFree ==
    /\ itTodo = <<>>
    /\ InLive
    /\ itLog # <<>>
    /\ it' = intern_free([it EXCEPT !.trace = NoTrace])
    /\ itLog' = Append(itLog, [name |-> "intern_free", bytes |-> <<>>,
                               buf |-> NULL, ret |-> NULL,
                               capacity |-> it.capacity])
    /\ UNCHANGED <<itTodo, itCalls>>
    /\ UNCHANGED restIntern

\* The call intern_bytes(b, len) or intern_bytes_transfer(b, len) that
\* follows an intern_free of an allocated table.
InternAfterFree ==
    /\ itTodo = <<>>
    /\ itCalls < MaxCalls
    /\ ~InLive
    /\ \E name \in {"intern_bytes", "intern_bytes_transfer"}, bs \in FreeContents :
         LET w0 == Alloc([it EXCEPT !.trace = NoTrace], bs, "caller")
             buf == Len(w0.heap)
             r == IF name = "intern_bytes" THEN intern_bytes(w0, buf)
                  ELSE intern_bytes_transfer(w0, buf)
         IN /\ it' = r.w
            /\ itLog' = Append(itLog, [name |-> name, bytes |-> bs, buf |-> buf,
                                       ret |-> r.ret,
                                       capacity |-> r.w.capacity])
    /\ itCalls' = itCalls + 1
    /\ UNCHANGED itTodo
    /\ UNCHANGED restIntern

-----------------------------------------------------------------------------
\* The string intern table (src/unnamed/part_007, lines 1-152)

\* while (*p) { h = (1000003*h) ^ *p++; ++len; if (len >= 127) .. break; }
\* over the characters cs from position k on, with the same low bits as
\* hash_mem keeps.
RECURSIVE StrHashLoop(_, _, _)
StrHashLoop(x, cs, k) ==
    IF k > Len(cs) \/ k > 127 THEN x
    ELSE StrHashLoop(BitXor(((HashMultiplier % Pow2(HashBits)) * x) % Pow2(HashBits),
                            cs[k]),
                     cs, k + 1)

\* hash_str of the string with the characters cs (its terminating 0 is not
\* part of cs).  The strings of the model other than the empty string have
\* a hash whose low bits are not all 0.
hash_str(cs) ==
    LET x == BitXor(StrHashLoop(IF cs = <<>> THEN 0 ELSE cs[1] * 128, cs, 1),
                    Len(cs))
    IN IF x = 0 THEN ZeroHash % Pow2(HashBits) ELSE x

\* The strings the caller interns first: "a", "q" and "aa" have home slot 0
\* at capacity 16, "n" has home slot 15 and "o" has home slot 14.
FirstStrings == <<(<<97>>), (<<113>>), (<<110>>), (<<97, 97>>), (<<111>>)>>

\* The strings the caller draws from freely: "a", "q", "b" and "".
FreeStrings == {<<97>>, <<113>>, <<98>>, <<>>}

Strings == {FirstStrings[j] : j \in 1 .. Len(FirstStrings)} \cup FreeStrings

\* hash_str of the strings of the model, computed once.
StrHashTable == [cs \in Strings |-> hash_str(cs)]

\* The table after program start: interned = NULL, lastfree = NULL, capacity
\* = 0, count = 0, with the heap and the arrays as in NoIntern.
NoStrings ==
    [interned |-> 0, entries |-> <<>>, lastfree |-> NOENT, capacity |-> 0,
     count |-> 0, heap |-> <<>>, arrays |-> <<>>, trace |-> NoTrace]

\* An entry after calloc.
StZeroEntry == [str |-> NULL, next |-> NOENT]

\* (int)(hash_str(str) & (size_t)(capacity-1))
StHome(w, str) ==
    LET cs == BytesAt(w, str)
    IN BitAnd(IF cs \in DOMAIN StrHashTable THEN StrHashTable[cs] ELSE hash_str(cs),
              w.capacity - 1)

RECURSIVE str_intern_insert(_, _)
RECURSIVE str_rehash(_, _)
RECURSIVE StRehash(_, _, _)

\* for (e = &interned[i]; e && e->str; e = e->next)
\*     if (strcmp(str, e->str) == 0) return e->str;
RECURSIVE StFind(_, _, _)
StFind(w, e, str) ==
    IF e = NOENT THEN NULL
    ELSE IF w.entries[e].str = NULL THEN NULL
    ELSE IF BytesAt(w, w.entries[e].str) = BytesAt(w, str) THEN w.entries[e].str
    ELSE StFind(w, w.entries[e].next, str)

\* lookup
str_lookup(w, str) ==
    IF w.capacity = 0 \/ str = NULL THEN NULL
    ELSE StFind(w, StHome(w, str), str)

\* while (lastfree >= interned && lastfree->str) --lastfree;
RECURSIVE StScanLastFree(_, _)
StScanLastFree(w, lf) ==
    IF lf >= 0 /\ w.entries[lf].str # NULL THEN StScanLastFree(w, lf - 1) ELSE lf

\* prev = &interned[i2]; while (prev->next != collision) prev = prev->next;
\* NOENT when the walk runs off the chain.
RECURSIVE StWalkPrev(_, _, _)
StWalkPrev(w, prev, i) ==
    IF prev = NOENT THEN NOENT
    ELSE IF w.entries[prev].next = i THEN prev
    ELSE StWalkPrev(w, w.entries[prev].next, i)

\* intern_insert
str_intern_insert(w, str) ==
    IF str = NULL THEN w
    ELSE
    LET w1 == IF w.capacity = 0 THEN str_rehash(w, FirstCapacity)
              ELSE IF w.count + 1 >= w.capacity THEN str_rehash(w, w.capacity * 2)
              ELSE w
        i == StHome(w1, str)
    IN IF w1.trace.fault THEN w1
       ELSE IF w1.entries[i].str = NULL
       THEN [w1 EXCEPT !.entries[i].str = str, !.count = @ + 1]
       ELSE LET lf == StScanLastFree(w1, w1.lastfree)
                w2 == [w1 EXCEPT !.lastfree = lf]
                i2 == StHome(w1, w1.entries[i].str)
                prev == StWalkPrev(w1, i2, i)
            IN IF lf = NOENT \/ (i2 # i /\ prev = NOENT)
               THEN [w2 EXCEPT !.trace.fault = TRUE]
               ELSE IF i2 = i
               THEN [w2 EXCEPT !.entries[lf] = [str |-> str,
                                                next |-> w1.entries[i].next],
                               !.entries[i].next = lf,
                               !.count = @ + 1]
               ELSE [w2 EXCEPT !.entries =
                                  [[[@ EXCEPT ![lf] = w1.entries[i]]
                                       EXCEPT ![prev].next = lf]
                                       EXCEPT ![i] = [str |-> str, next |-> NOENT]],
                               !.count = @ + 1]

\* The loop of rehash over the old array, from slot i on.
StRehash(w, old, i) ==
    IF i >= old.capacity \/ w.trace.fault THEN w
    ELSE IF old.entries[i].str # NULL
         THEN StRehash(str_intern_insert(w, old.entries[i].str), old, i + 1)
         ELSE StRehash(w, old, i + 1)

\* rehash
str_rehash(w, new_size) ==
    LET old == w
        fresh == [w EXCEPT !.interned = Len(w.arrays) + 1,
                           !.arrays = Append(@, 0),
                           !.entries = [i \in 0 .. new_size - 1 |-> StZeroEntry],
                           !.capacity = new_size,
                           !.count = 0,
                           !.lastfree = new_size - 1,
                           !.trace.resizes = @ + 1]
    IN IF old.interned # 0
       THEN [StRehash(fresh, old, 0) EXCEPT !.arrays[old.interned] = @ + 1]
       ELSE fresh

\* str_intern_transfer
str_intern_transfer(w, str) ==
    IF str = NULL THEN [w |-> w, ret |-> NULL]
    ELSE LET dup == str_lookup(w, str)
         IN IF dup # NULL THEN [w |-> Free(w, str), ret |-> dup]
            ELSE [w |-> str_intern_insert(w, str), ret |-> str]

\* str_intern: intern_insert(strdup(str)); return str;
str_intern(w, str) ==
    IF str = NULL THEN [w |-> w, ret |-> NULL]
    ELSE LET dup == str_lookup(w, str)
         IN IF dup # NULL THEN [w |-> w, ret |-> dup]
            ELSE LET w1 == Alloc(w, BytesAt(w, str), "intern")
                     copy == Len(w1.heap)
                 IN [w |-> str_intern_insert(w1, copy), ret |-> str]

\* for (i = 0; i < capacity; i++) if (interned[i].str) free(interned[i].str);
RECURSIVE StFreeAll(_, _)
StFreeAll(w, i) ==
    IF i >= w.capacity THEN w
    ELSE StFreeAll(IF w.entries[i].str # NULL THEN Free(w, w.entries[i].str) ELSE w,
                   i + 1)

\* free_interned: capacity, count and lastfree are left as they are.
free_interned(w) ==
    IF w.interned = 0 THEN w
    ELSE [StFreeAll(w, 0) EXCEPT !.arrays[w.interned] = @ + 1,
                                 !.interned = 0]

-----------------------------------------------------------------------------
\* The caller of the string intern table

\* The first calls: the strings of FirstStrings, the second one handed over
\* with str_intern_transfer.
StFirst ==
    [j \in 1 .. Len(FirstStrings) |->
        <<(IF j = 2 THEN "str_intern_transfer" ELSE "str_intern"),
          FirstStrings[j]>>]

\* The calls the caller makes before it chooses calls freely.
StScripts == {<<>>, StFirst}

InitStr(script) ==
    /\ st = NoStrings
    /\ stLog = <<>>
    /\ stTodo = script
    /\ stCalls = 0

\* free_interned has not been called on an allocated table (it is the last
\* call of a run).
StLive ==
    IF stLog = <<>> \/ st.capacity = 0 THEN TRUE
    ELSE stLog[Len(stLog)].name # "free_interned"

StCallable ==
    IF stTodo # <<>> THEN {Head(stTodo)}
    ELSE IF stCalls < MaxCalls /\ StLive
    THEN {"str_intern", "str_intern_transfer"} \X FreeStrings
    ELSE {}

\* A call str_intern(s) on a string s of the caller with the characters
\* c[2].
StrIntern ==
    /\ \E c \in StCallable :
         /\ c[1] = "str_intern"
         /\ LET w0 == Alloc([st EXCEPT !.trace = NoTrace], c[2], "caller")
                buf == Len(w0.heap)
                r == str_intern(w0, buf)
            IN /\ st' = r.w
               /\ stLog' = Append(stLog, [name |-> "str_intern", chars |-> c[2],
                                          buf |-> buf, ret |-> r.ret,
                                          found |-> str_lookup(w0, buf)])
    /\ stTodo' = IF stTodo # <<>> THEN Tail(stTodo) ELSE stTodo
    /\ stCalls' = IF stTodo # <<>> THEN stCalls ELSE stCalls + 1
    /\ UNCHANGED restStr

\* A call str_intern_transfer(s) on a string s that the caller has just
\* allocated with the characters c[2].
StrInternTransfer ==
    /\ \E c \in StCallable :
         /\ c[1] = "str_intern_transfer"
         /\ LET w0 == Alloc([st EXCEPT !.trace = NoTrace], c[2], "caller")
                buf == Len(w0.heap)
                r == str_intern_transfer(w0, buf)
            IN /\ st' = r.w
               /\ stLog' = Append(stLog, [name |-> "str_intern_transfer",
                                          chars |-> c[2], buf |-> buf,
                                          ret |-> r.ret,
                                          found |-> str_lookup(w0, buf)])
    /\ stTodo' = IF stTodo # <<>> THEN Tail(stTodo) ELSE stTodo
    /\ stCalls' = IF stTodo # <<>> THEN stCalls ELSE stCalls + 1
    /\ UNCHANGED restStr

\* The call free_interned() that ends a run.
FreeInterned ==
    /\ stTodo = <<>>
    /\ StLive
    /\ stLog # <<>>
    /\ st' = free_interned([st EXCEPT !.trace = NoTrace])
    /\ stLog' = Append(stLog, [name |-> "free_interned", chars |-> <<>>,
                               buf |-> NULL, ret |-> NULL, found |-> NULL])
    /\ UNCHANGED <<stTodo, stCalls>>
    /\ UNCHANGED restStr

-----------------------------------------------------------------------------
\* Specifications

\* The tables that a run does not use stay as they are created.
IdlePtr == InitPtr(<<>>)
IdleFb == InitFb(<<>>)
IdleIdx == InitIdx(<<>>)
IdleSet == InitSet(<<>>)
IdleIntern == InitIntern(<<>>)
IdleStr == InitStr(<<>>)
IdleFirst == InitFirst(<<>>)
IdleConc == InitConc(<<>>)

\* The pointer-linked map and its caller.
Init ==
    /\ \E script \in Scripts : InitPtr(script)
    /\ IdleFb /\ IdleIdx /\ IdleSet /\ IdleIntern /\ IdleStr /\ IdleFirst
    /\ IdleConc

Next ==
    \/ HashmapSet
    \/ HashmapNextPass
    \/ HashmapClear

Spec == Init /\ [][Next]_vars

\* The maps with a fallback and their caller.
InitFallback ==
    /\ \E script \in FbScripts : InitFb(script)
    /\ IdlePtr /\ IdleIdx /\ IdleSet /\ IdleIntern /\ IdleStr /\ IdleFirst
    /\ IdleConc

NextFallback ==
    \/ FbHashmapSet
    \/ FbHashmapClear

SpecFallback == InitFallback /\ [][NextFallback]_vars

\* The pointer-linked map with an allocator that can run out of memory.
NextNoMem ==
    \/ HashmapSet
    \/ HashmapSetNoMem

SpecNoMem == Init /\ [][NextNoMem]_vars

\* The pointer-linked map and a caller that makes a pass of hashmap_next
\* calls over it, and between the calls of the pass only removes keys that
\* have a value.
NextWalk ==
    \/ ~walk.active /\ HashmapSet
    \/ HashmapNext
    \/ HashmapRemoveInPass

\* A caller that has begun a pass goes on calling hashmap_next until a call
\* returns NULL.
SpecWalk == Init /\ [][NextWalk]_vars /\ WF_vars(HashmapNext)

\* The pointer-linked map, a copy of it, and their caller.
InitCopy ==
    /\ \E script \in CopyScripts : InitPtr(script)
    /\ IdleFb /\ IdleIdx /\ IdleSet /\ IdleIntern /\ IdleStr /\ IdleFirst
    /\ IdleConc

NextCopy ==
    \/ HashmapSet
    \/ HashmapCopy
    \/ HashmapSetCopy

SpecCopy == InitCopy /\ [][NextCopy]_vars

\* The map of src/hashmap.c and its caller.
InitHashmap ==
    /\ \E script \in V1Scripts : InitFirst(script)
    /\ IdlePtr /\ IdleFb /\ IdleIdx /\ IdleSet /\ IdleIntern /\ IdleStr
    /\ IdleConc

NextHashmap == V1HashmapSet

SpecHashmap == InitHashmap /\ [][NextHashmap]_vars

\* The index-linked map and its caller.
InitIndex ==
    /\ \E script \in IxScripts : InitIdx(script)
    /\ IdlePtr /\ IdleFb /\ IdleSet /\ IdleIntern /\ IdleStr /\ IdleFirst
    /\ IdleConc

NextIndex ==
    \/ IxHashmapSet
    \/ IxHashmapPop

SpecIndex == InitIndex /\ [][NextIndex]_vars

\* A program that is linked with one of the two maps, the pointer-linked or
\* the index-linked one (both define hashmap_set), and its caller.
InitMaps ==
    /\ \/ (\E script \in Scripts : InitPtr(script)) /\ IdleIdx
       \/ (\E script \in IxScripts : InitIdx(script)) /\ IdlePtr
    /\ IdleFb /\ IdleSet /\ IdleIntern /\ IdleStr /\ IdleFirst
    /\ IdleConc

NextMaps ==
    \/ IdleIdx /\ Next
    \/ IdlePtr /\ NextIndex

SpecMaps == InitMaps /\ [][NextMaps]_vars

\* The hash set and its caller.
InitHashset ==
    /\ \E script \in HsScripts : InitSet(script)
    /\ IdlePtr /\ IdleFb /\ IdleIdx /\ IdleIntern /\ IdleStr /\ IdleFirst
    /\ IdleConc

NextHashset ==
    \/ HashsetAdd
    \/ HashsetRemove

SpecHashset == InitHashset /\ [][NextHashset]_vars

\* The byte intern table and its caller.
InitBytes ==
    /\ \E script \in InScripts : InitIntern(script)
    /\ IdlePtr /\ IdleFb /\ IdleIdx /\ IdleSet /\ IdleStr /\ IdleFirst
    /\ IdleConc

NextBytes ==
    \/ InternBytes
    \/ InternBytesTransfer
    \/ InternFree

SpecBytes == InitBytes /\ [][NextBytes]_vars

\* The byte intern table and a caller that goes on after intern_free, until
\* a call has dereferenced a null pointer.
NextReuse ==
    /\ ~it.trace.fault
    /\ \/ InternBytes
       \/ InternBytesTransfer
       \/ InternFree
       \/ InternAfterFree

SpecReuse == InitBytes /\ [][NextReuse]_vars

\* The string intern table and its caller.
InitStrings ==
    /\ \E script \in StScripts : InitStr(script)
    /\ IdlePtr /\ IdleFb /\ IdleIdx /\ IdleSet /\ IdleIntern /\ IdleFirst
    /\ IdleConc

NextStrings ==
    \/ StrIntern
    \/ StrInternTransfer
    \/ FreeInterned

SpecStrings == InitStrings /\ [][NextStrings]_vars

\* The pointer-linked map shared by two threads, and their caller.
InitThreads ==
    /\ \E script \in CcScripts : InitConc(script)
    /\ IdlePtr /\ IdleFb /\ IdleIdx /\ IdleSet /\ IdleIntern /\ IdleStr
    /\ IdleFirst

NextThreads ==
    \/ CcBegin
    \/ CcFirst
    \/ CcProbe
    \/ CcStore
    \/ CcUpdate
    \/ CcScan
    \/ CcGrow
    \/ CcLink

SpecThreads == InitThreads /\ [][NextThreads]_vars

-----------------------------------------------------------------------------
\* Claims about the maps with a fallback

\* The step is a call on the map id.
FbCalled(id) == fbOp'.id = id /\ <<fbTodo, fbCalls>>' # <<fbTodo, fbCalls>>

\* C8: for a key that h holds no live entry of (never set in h, or removed
\* from h by a NULL value), hashmap_get(h, k) is hashmap_get(f, k).
FallbackReadThrough ==
    \A k \in Keys :
        fbLast["h"][k] = NULL
        => fb_hashmap_get(maps, "h", k) = fb_hashmap_get(maps, "f", k)

\* C9: a hashmap_set or hashmap_clear call on h, with the resizes it makes,
\* leaves every field of the fallback f as it was, and with it the results
\* of hashmap_get on f.
FallbackWriteIsolation ==
    [][FbCalled("h")
       => /\ maps'["f"] = maps["f"]
          /\ \A k \in Keys :
               fb_hashmap_get(maps', "f", k) = fb_hashmap_get(maps, "f", k)]_vars

\* A hashmap_set on h that rehashed h into 32 slots for a key the fallback
\* holds, with the fallback left at its two pairs.
FallbackWriteIsolationWitness ==
    /\ fbOp.name = "set" /\ fbOp.id = "h" /\ fbOp.key = 480
    /\ maps["h"].trace.resizes > 0
    /\ maps["h"].capacity = 32
    /\ maps["f"].count = 2
    /\ fb_hashmap_get(maps, "f", 480) = 1
    /\ fb_hashmap_get(maps, "h", 480) = fbOp.value

\* The keys that the table t itself holds with a value.
FbOwnLive(t) ==
    {k \in Keys : /\ t.capacity > 0
                  /\ ChainFind(t, Home(k, t.capacity), k) # NOENT
                  /\ t.entries[ChainFind(t, Home(k, t.capacity), k)].value # NULL}

\* The step is a hashmap_set on the map id, which had an array before the
\* call, and the call has resized it.
FbResized(id) ==
    /\ FbCalled(id) /\ fbOp'.name = "set"
    /\ maps[id].capacity > 0
    /\ maps'[id].trace.resizes >= 1

\* C29: after a hashmap_set that resized a map, the count is the number of
\* pairs the map held before the call, plus one for the pair the call
\* stored.
ResizeKeepsCount ==
    [][\A id \in MapIds :
          FbResized(id)
          => maps'[id].count \in {Cardinality(FbOwnLive(maps[id])),
                                  Cardinality(FbOwnLive(maps[id])) + 1}]_vars

\* What holds of a hashmap_set that resized a map: the pairs the map held
\* are the same after the call, and the count has grown by the number of
\* re-inserted entries, because hashmap_resize starts from the old count.
ResizeAddsToCount ==
    [][\A id \in MapIds :
          FbResized(id)
          => /\ FbOwnLive(maps[id]) \ {fbOp'.key}
                   = FbOwnLive(maps'[id]) \ {fbOp'.key}
             /\ \A k \in FbOwnLive(maps[id]) \ {fbOp'.key} :
                    fb_hashmap_get(maps', id, k) = fb_hashmap_get(maps, id, k)
             /\ maps'[id].count > maps[id].count + 1]_vars

\* A hashmap_set has grown the map h from 16 slots with 16 keys to 32 slots:
\* it holds 17 keys and its count is 33.
CountDoubled ==
    /\ fbOp.name = "set" /\ fbOp.id = "h"
    /\ maps["h"].trace.resizes = 1 /\ maps["h"].capacity = 32
    /\ Cardinality(FbOwnLive(maps["h"])) = 17
    /\ maps["h"].count = 33

\* C31: the free-slot scan of hashmap_set reads the key of entries inside
\* the array only: no call leaves the scan having read the key of the
\* position before entries[0], in the maps with a fallback and in the first
\* pointer-linked map.
ScanInBounds ==
    /\ \A id \in MapIds : ~maps[id].trace.oob
    /\ ~fm.trace.oob

\* What holds of the scan: it reads the position before entries[0] only
\* in a call that found no free slot at or below lastfree, and such a call
\* has resized the table.
ScanBelowOnlyWhenExhausted ==
    /\ \A id \in MapIds : maps[id].trace.oob => maps[id].trace.resizes >= 1
    /\ fm.trace.oob => fm.trace.resizes >= 1

\* A hashmap_set on the map h, whose 16 slots were all occupied, has read
\* the key of the position before entries[0] and has then grown the array.
ScanReadBelowFull ==
    /\ fbOp.name = "set" /\ fbOp.id = "h"
    /\ maps["h"].trace.oob
    /\ maps["h"].capacity = 32

\* A hashmap_set on the first pointer-linked map has read the key of the
\* position before entries[0].
V1ScanReadBelow ==
    /\ fmOp.name = "set"
    /\ fm.trace.oob

-----------------------------------------------------------------------------
\* Claims about the index-linked map

\* C10: hashmap_pop(h, k) on a stored key returns its value, makes
\* hashmap_get(h, k) NULL, makes the count one smaller and leaves hashmap_get
\* of every other key as it was, wherever k was on its chain.
PopStored ==
    [][(/\ ixOp'.name = "pop"
        /\ <<ixTodo, ixCalls>>' # <<ixTodo, ixCalls>>
        /\ ix_hashmap_get(ix, ixOp'.key) # NULL)
       => /\ ixOp'.place \in {"head", "alone", "middle", "tail"}
          /\ ixOp'.ret = ix_hashmap_get(ix, ixOp'.key)
          /\ ix_hashmap_get(ix', ixOp'.key) = NULL
          /\ ix'.count = ix.count - 1
          /\ \A k \in Keys \ {ixOp'.key} :
               ix_hashmap_get(ix', k) = ix_hashmap_get(ix, k)]_vars

\* A pop of the middle link of a chain of three keys, one of them beside a
\* displaced entry's former slot.
PopStoredWitness ==
    /\ ixOp.name = "pop" /\ ixOp.place = "middle" /\ ixOp.ret # NULL
    /\ ix.count = 3
    /\ ix_hashmap_get(ix, ixOp.key) = NULL

\* Pops of a chain head with a successor, of a chain head alone and of a
\* chain tail.
PopHeadReached == ixOp.name = "pop" /\ ixOp.place = "head" /\ ixOp.ret # NULL
PopAloneReached == ixOp.name = "pop" /\ ixOp.place = "alone" /\ ixOp.ret # NULL
PopTailReached == ixOp.name = "pop" /\ ixOp.place = "tail" /\ ixOp.ret # NULL

\* C11: hashmap_pop(h, k) on a table with capacity > 0 and a key k that is
\* not stored ends, returns NULL and leaves the slots, the count and the
\* capacity as they were, whether the home slot of k is empty or occupied.
PopMissing ==
    [][(/\ ixOp'.name = "pop"
        /\ <<ixTodo, ixCalls>>' # <<ixTodo, ixCalls>>
        /\ ix.capacity > 0
        /\ IxGetWalk(ix, Home(ixOp'.key, ix.capacity), ixOp'.key,
                     ix.capacity + 1) = -1)
       => /\ ~ix'.trace.hang
          /\ ixOp'.ret = NULL
          /\ ix'.entries = ix.entries
          /\ ix'.count = ix.count
          /\ ix'.capacity = ix.capacity]_vars

\* The part of C11 the code keeps: a pop of a missing key whose walk ends
\* returns NULL and changes no field of the table.
PopMissingEnded ==
    [][(/\ ixOp'.name = "pop"
        /\ <<ixTodo, ixCalls>>' # <<ixTodo, ixCalls>>
        /\ ix.capacity > 0
        /\ IxGetWalk(ix, Home(ixOp'.key, ix.capacity), ixOp'.key,
                     ix.capacity + 1) = -1
        /\ ~ix'.trace.hang)
       => /\ ixOp'.ret = NULL
          /\ [ix' EXCEPT !.trace = IxNoTrace] = [ix EXCEPT !.trace = IxNoTrace]]_vars

\* A hashmap_pop whose walk from an empty home slot follows the calloc'ed
\* next index 0 to the empty slot 0 and stays there.
PopMissingHangs == ixOp.name = "pop" /\ ix.trace.hang /\ ix.capacity > 0

\* The slots on the chain from slot i, and -2 when the walk has not reached
\* next == -1 after fuel slots.
RECURSIVE IxChainSlots(_, _, _)
IxChainSlots(t, i, fuel) ==
    IF i = -1 THEN {}
    ELSE IF fuel = 0 THEN {-2}
    ELSE {i} \cup IxChainSlots(t, t.entries[i].next, fuel - 1)

\* The occupied slots of t.
IxOccupied(t) == {s \in 0 .. t.capacity - 1 : t.entries[s].key # NULL}

\* C21: in every reachable state of the index-linked map every occupied slot
\* lies on the chain that starts at the home slot of its own key, and that
\* chain reaches next == -1 within capacity slots and passes through
\* occupied slots only.
ChainsReach ==
    \A s \in IxOccupied(ix) :
        LET c == IxChainSlots(ix, Home(ix.entries[s].key, ix.capacity), ix.capacity)
        IN /\ s \in c
           /\ -2 \notin c
           /\ c \subseteq IxOccupied(ix)

\* A hashmap_pop of the head of a chain in a table that has grown to 32
\* slots: the successor moved into the home slot.
ChainsReachWitness ==
    /\ ixOp.name = "pop" /\ ixOp.place = "head" /\ ~ix.trace.hang
    /\ ix.capacity = 32 /\ ix.count = 15

\* A hashmap_pop of the head or the middle of a chain of three, after which
\* a key still lies outside its home slot.
ChainsReachDisplaced ==
    /\ ixOp.name = "pop" /\ ixOp.place \in {"head", "middle"} /\ ~ix.trace.hang
    /\ ix.capacity = 16
    /\ \E s \in IxOccupied(ix) : Home(ix.entries[s].key, ix.capacity) # s

\* The home slot of the key in the occupied slot s of t.
IxHomeOf(t, s) == Home(t.entries[s].key, t.capacity)

\* C22: in every reachable state of the index-linked map, for every stored
\* key with home slot s, slot s holds a key whose home is s, every slot on
\* the chain from s holds a key with home s, and no occupied slot is the
\* successor of two occupied slots.
ChainsApart ==
    \A s \in IxOccupied(ix) :
        LET hm == IxHomeOf(ix, s)
            c == IxChainSlots(ix, hm, ix.capacity)
        IN /\ hm \in IxOccupied(ix)
           /\ IxHomeOf(ix, hm) = hm
           /\ c \subseteq IxOccupied(ix)
           /\ \A j \in c : IxHomeOf(ix, j) = hm
           /\ s \in c
           /\ Cardinality({q \in IxOccupied(ix) : ix.entries[q].next = s}) <= 1
           /\ s = hm => \A q \in IxOccupied(ix) : ix.entries[q].next # s

\* A hashmap_set of a key whose home slot 15 held a key of the chain of
\* slot 0: two chains, the one of slot 0 with three keys of which two lie
\* outside their home slot.
ChainsApartWitness ==
    /\ ixOp.name = "set" /\ ixOp.key = 480 /\ ixOp.ret = NULL
    /\ ix.capacity = 16
    /\ ix.entries[15].key = 480 /\ ix.entries[15].next = -1
    /\ Cardinality({s \in IxOccupied(ix) : IxHomeOf(ix, s) = 0 /\ s # 0}) = 2

\* The step is a hashmap_pop that has removed a key.
IxPopped ==
    /\ ixOp'.name = "pop"
    /\ <<ixTodo, ixCalls>>' # <<ixTodo, ixCalls>>
    /\ ixOp'.place \in {"head", "alone", "middle", "tail"}

\* C32, as the code has it: after a hashmap_pop that removed a key the
\* capacity is half of what it was exactly when the new count is greater than
\* 16 and less than the capacity divided by three in integer arithmetic
\* (21 for 64 slots), and it is unchanged otherwise; the count is one smaller
\* in both cases.
ShrinkRule ==
    [][IxPopped
       => /\ ix'.count = ix.count - 1
          /\ ix'.capacity = IF /\ ix'.count > 16
                               /\ ix'.count < ix.capacity \div 3
                            THEN ix.capacity \div 2
                            ELSE ix.capacity]_vars

\* C32, as it is stated: after a hashmap_pop that removed a key the capacity
\* is half of what it was exactly when the new count is greater than 16 and
\* less than one third of the capacity, and it is unchanged otherwise.
ShrinkBelowThird ==
    [][IxPopped
       => ix'.capacity = IF /\ ix'.count > 16
                            /\ 3 * ix'.count < ix.capacity
                         THEN ix.capacity \div 2
                         ELSE ix.capacity]_vars

\* A hashmap_pop has left 20 keys in a table of 64 slots and has halved it:
\* the 20 keys are in 32 slots.
ShrinkRuleWitness ==
    /\ ixOp.name = "pop" /\ ixOp.place # "absent"
    /\ ix.trace.resizes = 1
    /\ ix.capacity = 32 /\ ix.count = 20

\* A hashmap_pop has left 21 keys in a table of 64 slots, fewer than a third
\* of 64, and has not resized it.
ShrinkNotAtThird ==
    /\ ixOp.name = "pop" /\ ixOp.place # "absent"
    /\ ix.trace.resizes = 0
    /\ ix.capacity = 64 /\ ix.count = 21

\* A hashmap_pop has left 8 keys in a table of 32 slots, fewer than a third
\* of 32 and not more than 16, and has not resized it.
ShrinkNotBelowFloor ==
    /\ ixOp.name = "pop" /\ ixOp.place # "absent"
    /\ ix.trace.resizes = 0
    /\ ix.capacity = 32 /\ ix.count = 8

-----------------------------------------------------------------------------
\* Further claims about the pointer-linked map

\* The fields of the table: the slots, the count, the capacity and the
\* cursor lastfree.
Fields(t) == [t EXCEPT !.trace = NoTrace]

\* C17: in every reachable state hashmap_get(h, NULL) is NULL, and a call
\* hashmap_set(h, NULL, v) returns NULL and changes no slot, count, capacity
\* or cursor; on a table that was never used the capacity stays 0.
InvalidKey ==
    [][/\ hashmap_get(h, NULL) = NULL
       /\ hashmap_get(h', NULL) = NULL
       /\ (SetCalled /\ op'.key = NULL)
          => /\ op'.ret = NULL
             /\ Fields(h') = Fields(h)]_vars

\* A hashmap_set(h, NULL, v) with a value on a table of 16 slots in which
\* slot 7, the home slot of the hash of NULL, holds a key.
InvalidKeyWitness ==
    /\ op.name = "set" /\ op.key = NULL /\ op.value # NULL /\ op.ret = NULL
    /\ h.capacity = 16 /\ h.count >= 15
    /\ h.entries[Home(NULL, 16)].key # NULL
    /\ hashmap_get(h, NULL) = NULL

\* A hashmap_set(h, NULL, v) as the first call on a new table.
InvalidKeyOnNew ==
    /\ op.name = "set" /\ op.key = NULL /\ op.value # NULL
    /\ calls = 1 /\ h.capacity = 0 /\ h.count = 0

\* The step is a hashmap_set call during which custom_alloc returned NULL.
NoMemCalled == op'.name = "set_nomem" /\ <<todo, calls>>' # <<todo, calls>>

\* C18: when the allocator returns NULL inside hashmap_resize, hashmap_set
\* returns to its caller, the table keeps its entries, capacity and count,
\* nothing is read or written through the failed allocation and no stored
\* pair is lost.
AllocFailureKept ==
    [][NoMemCalled
       => /\ ~h'.trace.fault
          /\ h'.entries = h.entries
          /\ h'.capacity = h.capacity
          /\ h'.count = h.count]_vars

\* A hashmap_set on a full table of 16 slots whose growth got no memory:
\* the pointer to the entries is NULL and the call has faulted.
AllocFailureFaults ==
    /\ op.name = "set_nomem" /\ h.trace.fault
    /\ h.capacity = 16 /\ h.count >= 15 /\ h.entries = <<>>

\* The first hashmap_set on a new table whose allocation of 16 slots got no
\* memory.
AllocFailureOnNew ==
    /\ op.name = "set_nomem" /\ h.trace.fault
    /\ h.capacity = 0 /\ calls = 1

\* The step is a call hashmap_clear(h).
ClearCalled == op'.name = "clear" /\ calls' # calls

\* C19: after hashmap_clear(h) the capacity and hashmap_length(h) are 0,
\* hashmap_next(h, NULL) is NULL, hashmap_get(h, k) is NULL for every key
\* (the table has no fallback), the fallback link is as before, and a
\* hashmap_set(h, k, v) with a key and a value that follows behaves as on a
\* new table: capacity 16, length 1, hashmap_get(h, k) = v.
ClearResets ==
    [][/\ ClearCalled
          => /\ h'.capacity = 0
             /\ hashmap_length(h') = 0
             /\ hashmap_next(h', NULL) = NULL
             /\ \A k \in Keys \cup {NULL} : hashmap_get(h', k) = NULL
             /\ h'.fallback = h.fallback
             /\ Fields(h') = hashmap_new
       /\ (op.name = "clear" /\ SetCalled /\ op'.key # NULL /\ op'.value # NULL)
          => /\ h'.capacity = FirstCapacity
             /\ hashmap_length(h') = 1
             /\ hashmap_get(h', op'.key) = op'.value
             /\ op'.ret = NULL
             /\ LiveKeys(h') = {op'.key}
             /\ h' = hashmap_set(hashmap_new, op'.key, op'.value).h]_vars

\* A hashmap_set with a key and a value right after the hashmap_clear of a
\* table that held fifteen keys in 16 slots.
ClearResetsWitness ==
    /\ op.name = "set" /\ op.key # NULL /\ op.value # NULL
    /\ calls = 2
    /\ h.capacity = 16 /\ h.count = 1 /\ h.trace.resizes = 1
    /\ \A k \in SpreadKeys : last[k] = NULL /\ hashmap_get(h, k) = NULL
    /\ hashmap_get(h, op.key) = op.value

\* A hashmap_clear of a table with fifteen keys in 16 slots.
ClearFullReached ==
    /\ op.name = "clear" /\ calls = 1 /\ h.capacity = 0 /\ h.count = 0
    /\ h.entries = <<>> /\ h.lastfree = NOENT

\* The step is a call c = hashmap_copy(h).
CopyCalled == op'.name = "copy" /\ calls' # calls

\* The copy c can be read, and reads as the table t: the same hashmap_get
\* result for every key and the same length.
SameContents(c, t) ==
    /\ ~c.h.trace.fault
    /\ \A k \in Keys : ~CopyGetFaults(c, k)
    /\ \A k \in Keys : hashmap_get(c.h, k) = hashmap_get(t, k)
    /\ hashmap_length(c.h) = hashmap_length(t)

\* C20: after c = hashmap_copy(h), hashmap_get(c, k) = hashmap_get(h, k) for
\* every key and hashmap_length(c) = hashmap_length(h), h is unchanged, and
\* later hashmap_set calls on c or on h do not affect the other table.
CopyFaithful ==
    [][/\ CopyCalled => (SameContents(cp', h) /\ h' = h)
       /\ (cp.made /\ SetCalled) => cp' = cp
       /\ (op'.name = "set_copy" /\ calls' # calls) => h' = h]_vars

\* What holds of every hashmap_copy: h is unchanged and, when the block the
\* allocator returned was all zero, the copy reads as h does for every key;
\* a hashmap_set on one of the two tables leaves the other as it was.
CopyOfZeroBlock ==
    [][/\ CopyCalled
          => /\ h' = h
             /\ cp'.junk = ZeroJunk
                => /\ ~cp'.h.trace.fault
                   /\ \A k \in Keys : ~CopyGetFaults(cp', k)
                   /\ \A k \in Keys : hashmap_get(cp'.h, k) = hashmap_get(h, k)
       /\ (cp.made /\ SetCalled) => cp' = cp
       /\ (op'.name = "set_copy" /\ calls' # calls) => h' = h]_vars

\* The copy of a table that was never used: no field of it was assigned, its
\* length is what the block held.
CopyUninitialised ==
    /\ op.name = "copy" /\ calls = 1
    /\ h = hashmap_new
    /\ ~cp.h.trace.fault /\ cp.h.capacity = 0 /\ ~cp.wild
    /\ hashmap_length(cp.h) # hashmap_length(h)

\* The copy of a table with keys into a block with a left-over capacity or
\* array: the first hashmap_set follows a pointer that was never assigned.
CopyFaults ==
    /\ op.name = "copy"
    /\ h.count > 0
    /\ cp.h.trace.fault

\* The copy into a block of zero bytes has another length than the table.
CopyLengthDiffers ==
    /\ op.name = "copy"
    /\ cp.junk = ZeroJunk
    /\ hashmap_length(cp.h) # hashmap_length(h)

\* A copy into a block of zero bytes that reads as the table does, of a
\* table with removed keys, followed by a hashmap_set on the copy.
CopySetReached ==
    /\ op.name = "set_copy" /\ op.value # NULL
    /\ cp.junk = ZeroJunk
    /\ h.count > 1
    /\ \E k \in Keys : hashmap_get(h, k) # hashmap_get(cp.h, k)

\* The occupied slots of t whose successor link is slot i.
Preds(t, i) ==
    {q \in 0 .. t.capacity - 1 : t.entries[q].key # NULL /\ t.entries[q].next = i}

\* hashmap_set(t, key, ..) takes the displaced-occupant branch without a
\* resize: the home slot of key holds a key with another home, and the scan
\* from lastfree finds a free slot.
Displaces(t, key) ==
    /\ key # NULL
    /\ t.capacity > 0
    /\ t.entries[Home(key, t.capacity)].key # NULL
    /\ Home(t.entries[Home(key, t.capacity)].key, t.capacity) # Home(key, t.capacity)
    /\ ScanLastFree(t, t.lastfree) >= 0

\* C23: when hashmap_set(h, k, v) finds in the home slot i of k an entry e
\* with another home, then after the call slot i holds k and v with no
\* successor, the former free slot holds e with its key, value and link, the
\* predecessor of e on the chain of e's home links to that slot, no other
\* slot has changed, and every key stored before reads as before.
Displacement ==
    [][(SetCalled /\ Displaces(h, op'.key))
          => LET k == op'.key
                 i == Home(k, h.capacity)
                 lf == ScanLastFree(h, h.lastfree)
                 e == h.entries[i]
             IN /\ h'.capacity = h.capacity
                /\ op'.ret = NULL
                /\ h'.entries[i] = [key |-> k, value |-> op'.value, next |-> NOENT]
                /\ lf # i /\ h.entries[lf].key = NULL
                /\ h'.entries[lf] = e
                /\ Cardinality(Preds(h, i)) = 1
                /\ \A q \in Preds(h, i) :
                       /\ h'.entries[q] = [h.entries[q] EXCEPT !.next = lf]
                       /\ ChainFind(h, Home(e.key, h.capacity), h.entries[q].key) = q
                /\ \A q \in 0 .. h.capacity - 1 :
                       q \notin ({i, lf} \cup Preds(h, i))
                          => h'.entries[q] = h.entries[q]
                /\ ChainFind(h', Home(e.key, h.capacity), e.key) = lf
                /\ \A x \in Keys \ {k} : hashmap_get(h', x) = hashmap_get(h, x)
                /\ hashmap_get(h, k) = NULL
                /\ hashmap_get(h', k) = op'.value]_vars

\* Key 416 has taken its home slot 13 from key 8 of the chain of slot 0,
\* which had a predecessor and a successor: key 8 and its link to slot 14
\* are now in the former free slot 12, and slot 0 links to slot 12.
DisplacementWitness ==
    /\ op.name = "set" /\ op.key = 416 /\ op.ret = NULL
    /\ h.capacity = 16 /\ h.count = 5 /\ h.lastfree = 12
    /\ h.entries[13] = [key |-> 416, value |-> 2, next |-> NOENT]
    /\ h.entries[12] = [key |-> 8, value |-> 1, next |-> 14]
    /\ h.entries[0] = [key |-> 2, value |-> 1, next |-> 12]

\* Key 480 has taken its home slot 15 from the last key of the chain of
\* slot 0.
DisplacementOfTail ==
    /\ op.name = "set" /\ op.key = 480 /\ op.value # NULL /\ op.ret = NULL
    /\ h.capacity = 16 /\ h.count = 3
    /\ h.entries[15] = [key |-> 480, value |-> op.value, next |-> NOENT]
    /\ h.entries[14].key = 4 /\ h.entries[14].next = NOENT
    /\ h.entries[0].next = 14

\* C24: in every reachable state of the pointer-linked map with capacity > 0
\* hashmap_length(h) is below the capacity.
OccupancyBelowCapacity ==
    h.capacity > 0 => hashmap_length(h) < h.capacity

\* Every one of the 16 slots holds a key with a value, and hashmap_length(h)
\* is 16: the sixteenth key went to the last free slot without a resize.
TableFull ==
    /\ ~h.trace.fault
    /\ h.capacity = 16 /\ hashmap_length(h) = 16
    /\ Cardinality(Occupied(h)) = 16 /\ Removed(h) = {}
    /\ h.trace.resizes = 0

\* hashmap_length(h) is above the capacity.
LengthAboveCapacity ==
    /\ ~h.trace.fault
    /\ h.capacity > 0 /\ hashmap_length(h) > h.capacity

\* What holds in every reachable state: the live keys are at most as many
\* as the slots.
LiveWithinCapacity ==
    h.capacity > 0 => Cardinality(LiveKeys(h)) <= h.capacity

\* hashmap_set(t, key, ..) finds no empty slot for the colliding key: the
\* home slot of key is taken, key is not found by the update walk, and the
\* scan from lastfree runs below the array.
NoSlotFor(t, key) ==
    /\ key # NULL
    /\ t.capacity > 0
    /\ LET i == Home(key, t.capacity)
       IN /\ t.entries[i].key # NULL
          /\ \/ Home(t.entries[i].key, t.capacity) # i
             \/ ChainFind(t, i, key) = NOENT
    /\ ScanLastFree(t, t.lastfree) < 0

\* C25: whenever hashmap_set finds no empty slot for a colliding key while
\* the count is above half of the capacity, the table has twice the
\* capacity after the call.
GrowsWhenFull ==
    [][(SetCalled /\ NoSlotFor(h, op'.key) /\ 2 * hashmap_length(h) > h.capacity)
          => h'.capacity = 2 * h.capacity]_vars

\* What the code does when no slot is free and the count is above half of
\* the capacity: it resizes, to twice the capacity when count + 1 is above
\* the capacity, and otherwise to the same capacity, and to twice the
\* capacity only when the retry finds no free slot again.
ResizeBySize ==
    [][(SetCalled /\ NoSlotFor(h, op'.key) /\ 2 * hashmap_length(h) > h.capacity)
          => /\ h'.trace.resizes >= 1
             /\ h'.capacity \in {h.capacity, 2 * h.capacity}
             /\ hashmap_length(h) + 1 > h.capacity => h'.capacity = 2 * h.capacity
             /\ h'.trace.resizes = 1 /\ hashmap_length(h) + 1 <= h.capacity
                => h'.capacity = h.capacity]_vars

\* A hashmap_set found all 16 slots taken, one of them by a removed key,
\* with 15 keys that have a value: the table was rebuilt with 16 slots.
RebuiltSameSize ==
    /\ op.name = "set" /\ op.value # NULL /\ op.ret = NULL
    /\ h.trace.resizes = 1 /\ h.capacity = 16
    /\ hashmap_length(h) = 16 /\ Cardinality(LiveKeys(h)) = 16

\* A hashmap_set found all 16 slots taken by keys with a value: the table
\* has 32 slots.
GrownWhenFull ==
    /\ op.name = "set" /\ op.value # NULL /\ op.ret = NULL
    /\ h.trace.resizes = 1 /\ h.capacity = 32
    /\ hashmap_length(h) = 17 /\ Cardinality(LiveKeys(h)) = 17

\* C26: every hashmap_set call on the pointer-linked map ends: the
\* predecessor walk never runs off the chain, no hashmap_resize is left
\* unfinished, and the call makes at most three hashmap_resize calls.
SetTerminates ==
    [][SetCalled
          => /\ ~h'.trace.fault
             /\ h'.trace.depth = 0
             /\ h'.trace.resizes <= 3
             /\ NoSlotFor(h, op'.key) => h'.trace.resizes >= 1
             /\ (op'.key # NULL /\ op'.value # NULL)
                => hashmap_get(h', op'.key) = op'.value]_vars

\* A hashmap_set on a table whose 16 slots were all taken, one of them by a
\* removed key, has gone through the retry loop twice: once with the same
\* capacity and once with twice the capacity.
SetTerminatesWitness ==
    /\ op.name = "set" /\ ~h.trace.fault
    /\ h.trace.resizes = 2 /\ h.trace.depth = 0
    /\ h.capacity = 32

\* A hashmap_set during which a hashmap_resize was started while another
\* was re-inserting.
NestedResizeEnded ==
    /\ op.name = "set" /\ ~h.trace.fault
    /\ h.trace.nested /\ h.trace.depth = 0

\* C33: a new table has capacity 0, the first hashmap_set with a key makes
\* the capacity 16, and a hashmap_set on a table with an array leaves the
\* capacity at 16 or more.
MinimumCapacity ==
    /\ op.name = "new" => h.capacity = 0
    /\ h.capacity = 0 \/ h.capacity >= FirstCapacity

\* What holds of the capacity: a table that has had no hashmap_set with a
\* key has capacity 0, a hashmap_set with a key on it makes the capacity 16,
\* and a hashmap_set on a table with an array leaves it an array of at
\* least one slot.
CapacityFromFirstSet ==
    [][SetCalled
       => /\ (h.capacity = 0 /\ op'.key = NULL) => h'.capacity = 0
          /\ (h.capacity = 0 /\ op'.key # NULL) => h'.capacity = FirstCapacity
          /\ h.capacity > 0 => h'.capacity > 0]_vars

\* A hashmap_set has found no free slot in a table of 16 slots whose count
\* was at most 7, and has rebuilt the table with 8 slots.
CapacityHalved ==
    /\ op.name = "set" /\ op.key # NULL /\ op.value # NULL
    /\ ~h.trace.fault
    /\ h.trace.resizes >= 1
    /\ h.capacity = 8
    /\ hashmap_get(h, op.key) = op.value

\* The step is a hashmap_set(h, op'.key, NULL) between two calls of a pass.
RemovedInPass == walk.active /\ op'.name = "set" /\ calls' # calls

\* The step is a hashmap_next call of a pass.
NextCalled == op'.name = "next" /\ walk' # walk

\* The slot of t that holds key, for a key that t holds.
SlotOf(t, key) == CHOOSE i \in 0 .. t.capacity - 1 : t.entries[i].key = key

\* The calls of the pass w that returned key.
Returns(w, key) == {n \in 1 .. Len(w.keys) : w.keys[n] = key}

\* C35: if between the hashmap_next calls of a pass the only mutations are
\* hashmap_set(h, k, NULL) on keys that have a value at that moment, then a
\* removal moves no entry and resizes nothing; every hashmap_next call
\* returns NULL or a key in a later slot than the key before, so that the
\* pass ends within capacity + 1 calls; and when the pass has ended, no key
\* was returned twice and every key that had a value during the whole pass
\* was returned once.
RemovalDuringPass ==
    [][/\ RemovedInPass
          => /\ h'.capacity = h.capacity
             /\ h'.trace.resizes = 0
             /\ \A i \in 0 .. h.capacity - 1 :
                    /\ h'.entries[i].key = h.entries[i].key
                    /\ h'.entries[i].next = h.entries[i].next
             /\ hashmap_get(h', op'.key) = NULL
             /\ \A k \in Keys \ {op'.key} : hashmap_get(h', k) = hashmap_get(h, k)
       /\ NextCalled
          => /\ Len(walk'.keys) <= h.capacity
             /\ (walk.cursor # NULL /\ walk'.cursor # NULL)
                => SlotOf(h, walk'.cursor) > SlotOf(h, walk.cursor)
             /\ walk'.ended
                => /\ \A k \in Keys : Cardinality(Returns(walk', k)) <= 1
                   /\ \A k \in walk'.live : Cardinality(Returns(walk', k)) = 1]_vars

\* With a caller that goes on calling hashmap_next, every pass that has
\* begun ends.
PassEnds == walk.active ~> walk.ended

\* A pass over a table of 16 slots has ended, during which the caller has
\* removed a key that a call had returned and a key that no call returned;
\* keys that had a value during the whole pass were returned.
RemovalDuringPassWitness ==
    /\ walk.ended
    /\ h.capacity = 16
    /\ \E k \in walk.removed : Returns(walk, k) # {}
    /\ \E k \in walk.removed : Returns(walk, k) = {}
    /\ Cardinality(walk.live) >= 2

-----------------------------------------------------------------------------
\* Claims about both maps

\* n is a power of two.
PowerOfTwo(n) == \E x \in 0 .. 10 : n = Pow2(x)

\* The mask of the capacity selects for every key the slot that the
\* remainder of its hash by the capacity selects, a slot of the array.
MaskSelects(capacity) ==
    \A k \in Keys \cup {NULL} :
        /\ HomeSlot(k, capacity) = hash_pointer(k) % capacity
        /\ HomeSlot(k, capacity) \in 0 .. capacity - 1

\* C34: in every reachable state of the pointer-linked map and of the
\* index-linked map the capacity is zero or a power of two, and then
\* hash & (capacity-1) selects for every key a slot in 0 .. capacity-1, the
\* one that the remainder of the hash by the capacity selects.
CapacityPowerOfTwo ==
    /\ h.capacity = 0 \/ (PowerOfTwo(h.capacity) /\ MaskSelects(h.capacity))
    /\ ix.capacity = 0 \/ (PowerOfTwo(ix.capacity) /\ MaskSelects(ix.capacity))

\* A hashmap_pop has halved the index-linked map from 64 to 32 slots, after
\* two growths of it.
CapacityPowerOfTwoWitness ==
    /\ ixOp.name = "pop" /\ ix.trace.resizes = 1
    /\ ix.capacity = 32
    /\ h.capacity = 0

\* A hashmap_set has grown the pointer-linked map from 16 to 32 slots.
CapacityDoubledPtr ==
    /\ op.name = "set" /\ ~h.trace.fault /\ h.trace.resizes >= 1
    /\ h.capacity = 32
    /\ ix.capacity = 0

\* A hashmap_set has rebuilt the pointer-linked map with 8 slots.
CapacityHalvedPtr ==
    /\ op.name = "set" /\ ~h.trace.fault /\ h.trace.resizes >= 1
    /\ h.capacity = 8
    /\ ix.capacity = 0

\* A hashmap_set has grown the index-linked map to 64 slots.
CapacityGrownIdx ==
    /\ ixOp.name = "set" /\ ix.trace.resizes >= 1
    /\ ix.capacity = 64
    /\ h.capacity = 0

-----------------------------------------------------------------------------
\* Claims about the first pointer-linked map

\* The slots of t that hold key.
V1SlotsOf(t, key) ==
    {i \in 0 .. t.capacity - 1 : t.entries[i].key = key}

\* The step is a call hashmap_set(h, fmOp'.key, fmOp'.value).
V1Called == <<fmTodo, fmCalls>>' # <<fmTodo, fmCalls>>

\* C30: after any sequence of hashmap_set calls no key is stored in more
\* than one slot, and a hashmap_set on a key that is stored in some slot
\* adds no slot for it and returns the value it had.
KeyUnique ==
    [][V1Called
          => /\ \A k \in Keys : Cardinality(V1SlotsOf(fm', k)) <= 1
             /\ V1SlotsOf(fm, fmOp'.key) # {}
                => /\ Cardinality(V1SlotsOf(fm', fmOp'.key)) = 1
                   /\ fmOp'.ret = fmOp'.old]_vars

\* What holds of a hashmap_set on a key that is stored in its home slot: the
\* call changes the value of that slot, adds no slot and returns the old
\* value; and hashmap_get returns the value of every call that set one.
UpdateAtHome ==
    [][V1Called
          => /\ (fm.capacity > 0
                 /\ fm.entries[Home(fmOp'.key, fm.capacity)].key = fmOp'.key)
                => /\ V1SlotsOf(fm', fmOp'.key) = V1SlotsOf(fm, fmOp'.key)
                   /\ fmOp'.ret = fmOp'.old
                   /\ fm'.trace.resizes = 0
             /\ fmOp'.value # NULL
                => v1_hashmap_get(fm', fmOp'.key) = fmOp'.value]_vars

\* Key 4, stored outside its home slot 0, was set again: it is in two slots
\* of the chain of slot 0, and the call returned NULL.
KeyStoredTwice ==
    /\ fmOp.name = "set" /\ fmOp.key = 4 /\ fmOp.value # NULL
    /\ fmOp.ret = NULL /\ fmOp.old # NULL
    /\ fm.capacity = 16 /\ fm.trace.resizes = 0
    /\ Cardinality(V1SlotsOf(fm, 4)) = 2

\* A hashmap_set(h, k, NULL) on a key stored outside its home slot left the
\* key with its value.
RemovalIgnored ==
    /\ fmOp.name = "set" /\ fmOp.value = NULL /\ fmOp.ret = NULL
    /\ fmOp.old # NULL
    /\ v1_hashmap_get(fm, fmOp.key) = fmOp.old

-----------------------------------------------------------------------------
\* Claims about the hash set

\* The step is a hashset_add or hashset_remove call.
HsCalled == <<hsTodo, hsCalls>>' # <<hsTodo, hsCalls>>

\* What a call of the set has to do to the membership of the items.
HsEffect ==
    /\ hsOp'.name = "add"
       => /\ hsOp'.ret = ~hashset_contains(hs, hsOp'.item)
          /\ hashset_contains(hs', hsOp'.item)
    /\ hsOp'.name = "remove"
       => /\ hsOp'.ret = hashset_contains(hs, hsOp'.item)
          /\ ~hashset_contains(hs', hsOp'.item)
    /\ \A x \in Keys \ {hsOp'.item} :
         hashset_contains(hs', x) = hashset_contains(hs, x)

\* C12: every hashset_add(h, x) returns true exactly when x was not
\* contained and leaves x contained, every hashset_remove(h, x) returns true
\* exactly when x was contained and leaves x not contained, and the
\* membership of every other item is unchanged.
SetSemantics ==
    [][HsCalled => (~hs'.trace.hang /\ HsEffect)]_vars

\* The part of C12 the code keeps: the calls that return have the effect of
\* a set operation.
SetSemanticsReturned ==
    [][(HsCalled /\ ~hs'.trace.hang) => HsEffect]_vars

\* A hashset_add of a new item into a table whose sixteen slots are all
\* taken while occupancy counts one item: the scan for a free slot does not
\* end.
AddHangs ==
    /\ hsOp.name = "add" /\ hs.trace.hang
    /\ \A i \in 0 .. hs.capacity - 1 : hs.entries[i].item # NULL
    /\ hs.occupancy + 1 < hs.capacity

\* A hashset_remove of an item that is not contained whose walk does not
\* end.
RemoveHangs == hsOp.name = "remove" /\ hs.trace.hang

\* The slots of the set t that hold an item.
HsOccupied(t) == {i \in 0 .. t.capacity - 1 : t.entries[i].item # NULL}

\* C27: every hashset_add call ends: its walks and its scan for a free slot
\* do not run for ever.
AddTerminates ==
    [][(HsCalled /\ hsOp'.name = "add") => ~hs'.trace.hang]_vars

\* What holds of the calls: a hashset_add does not end only when every slot
\* of the table was taken before the call and the growth test, which
\* compares occupancy + 1 with the capacity, did not fire.
AddHangsWhenFull ==
    [][(HsCalled /\ hsOp'.name = "add" /\ hs'.trace.hang)
          => /\ hs.capacity > 0
             /\ Cardinality(HsOccupied(hs)) = hs.capacity
             /\ hs.occupancy + 1 < hs.capacity
             /\ ~hashset_contains(hs, hsOp'.item)]_vars

\* The free-slot scan of a hashset_add runs in a table of 16 slots that are
\* all taken, fifteen of them by items that went to their empty home slot
\* and were not counted.
ScanFindsNoSlot ==
    /\ hsOp.name = "add" /\ hs.trace.hang
    /\ hs.capacity = 16 /\ Cardinality(HsOccupied(hs)) = 16
    /\ hs.occupancy = 1
    /\ hs.trace.resizes = 0

\* C28: in every reachable state of the hash set, occupancy is the number
\* of occupied slots and the number of items that hashset_contains finds,
\* and it is not negative.
OccupancyCounts ==
    /\ hs.occupancy = Cardinality(HsOccupied(hs))
    /\ hs.occupancy = Cardinality({x \in Keys : hashset_contains(hs, x)})
    /\ hs.occupancy >= 0

\* What holds in every reachable state: the occupied slots are as many as
\* the items that hashset_contains finds, and occupancy is at most that
\* number.
SlotsAreItems ==
    /\ Cardinality(HsOccupied(hs)) = Cardinality({x \in Keys : hashset_contains(hs, x)})
    /\ hs.occupancy <= Cardinality(HsOccupied(hs))

\* An item was added to its empty home slot and removed again: occupancy
\* is -1 in an empty table.
OccupancyNegative ==
    /\ hsOp.name = "remove" /\ hsOp.ret /\ ~hs.trace.hang
    /\ HsOccupied(hs) = {}
    /\ hs.occupancy = -1

\* Fifteen items are in the table and occupancy is 0.
OccupancyUncounted ==
    /\ ~hs.trace.hang
    /\ Cardinality(HsOccupied(hs)) = 15
    /\ hs.occupancy = 0

-----------------------------------------------------------------------------
\* Claims about the byte intern table

\* The calls of the run so far that were intern_bytes calls.
BytesCalls == {n \in 1 .. Len(itLog) : itLog[n].name = "intern_bytes"}

\* C13: two intern_bytes calls on buffers with the same bytes at two
\* addresses return the same pointer, whatever was interned in between, and
\* that pointer is neither of the two buffers.
DedupBytes ==
    \A m, n \in BytesCalls :
        (m < n /\ itLog[m].bytes = itLog[n].bytes)
        => /\ itLog[m].buf # itLog[n].buf
           /\ itLog[m].ret = itLog[n].ret
           /\ itLog[n].ret \notin {NULL, itLog[m].buf, itLog[n].buf}
           /\ it.heap[itLog[n].ret].bytes = itLog[n].bytes

\* Two intern_bytes calls on equal bytes, the first into the array of 16
\* slots and the second after the rehash into 32 slots, for a content that
\* the first call put on a chain.
DedupBytesWitness ==
    \E m, n \in BytesCalls :
        /\ m < n
        /\ itLog[m].bytes = <<35>> /\ itLog[n].bytes = <<35>>
        /\ itLog[m].capacity = 16 /\ itLog[n].capacity = 32
        /\ itLog[m].ret = itLog[n].ret
        /\ itLog[m].ret = itLog[m].buf + 1

\* The step is a call of the byte intern table; the call is the last entry
\* of the log.
InCalled == Len(itLog') = Len(itLog) + 1

\* No buffer has been passed to free twice.
NoDoubleFree == \A a \in 1 .. Len(it.heap) : it.heap[a].frees <= 1

\* No entry of the table points to a buffer that has been freed.
NoDangling ==
    it.interned # 0
    => \A i \in 0 .. it.capacity - 1 :
          it.entries[i].mem # NULL => it.heap[it.entries[i].mem].frees = 0

Owned ==
    {a \in 1 .. Len(it.heap) :
        \/ it.heap[a].by = "intern"
        \/ \E n \in 1 .. Len(itLog) :
             /\ itLog[n].name = "intern_bytes_transfer"
             /\ itLog[n].buf = a /\ itLog[n].ret = a}

\* C15: intern_free frees every buffer the table owns once and frees the
\* current array, and the old array of every rehash has been freed once (at
\* every moment the array in use is the one array not freed).
Teardown ==
    [][InCalled
       => /\ \A n \in 1 .. Len(it'.arrays) :
               it'.arrays[n] = IF n = it'.interned THEN 0 ELSE 1
          /\ itLog'[Len(itLog')].name = "intern_free"
             => /\ it'.interned = 0
                /\ \A a \in Owned' : it'.heap[a].frees = 1
                /\ \A a \in (1 .. Len(it'.heap)) \ Owned' :
                     it'.heap[a].frees = IF \E n \in 1 .. Len(itLog) :
                                               /\ itLog[n].buf = a
                                               /\ itLog[n].name = "intern_bytes_transfer"
                                            THEN 1 ELSE 0]_vars

\* An intern_free of a table that was rehashed into 32 slots and owns 16
\* buffers, copies and handed-over ones, some of them on chains.
TeardownWitness ==
    /\ itLog # <<>>
    /\ itLog[Len(itLog)].name = "intern_free"
    /\ it.capacity = 32 /\ it.count = 16 /\ it.interned = 0
    /\ Len(it.arrays) = 2
    /\ Cardinality(Owned) = 16
    /\ \E a, b \in Owned : it.heap[a].by = "intern" /\ it.heap[b].by = "caller"
    /\ \E i \in 0 .. it.capacity - 1 : it.entries[i].next # NOENT

\* The calls of the run so far that interned the bytes bs.
CallsOn(bs) ==
    {n \in 1 .. Len(itLog) :
        /\ itLog[n].name \in {"intern_bytes", "intern_bytes_transfer"}
        /\ itLog[n].bytes = bs}

\* C36: the two buffers of 129 bytes, which agree on the 128 bytes that
\* hash_mem reads and differ in the last byte, have the same hash_mem value;
\* yet the calls that intern the one return a pointer other than the calls
\* that intern the other, all calls on the same one return the same pointer,
\* and that pointer holds the bytes of the call.
PrefixHashDisambiguated ==
    /\ LongA # LongB /\ Len(LongA) = Len(LongB)
    /\ HashTable[LongA] = HashTable[LongB]
    /\ \A m \in CallsOn(LongA), n \in CallsOn(LongB) : itLog[m].ret # itLog[n].ret
    /\ \A bs \in {LongA, LongB} :
         \A m, n \in CallsOn(bs) :
             /\ itLog[m].ret = itLog[n].ret
             /\ itLog[m].ret # NULL
             /\ it.heap[itLog[m].ret].bytes = bs

\* Both long buffers are interned, the second on the chain of the home slot
\* of the first, and a later intern_bytes of the first has returned the
\* pointer of the first.
PrefixHashWitness ==
    \E a, b, c \in 1 .. Len(itLog) :
        /\ a < b /\ b < c
        /\ a \in CallsOn(LongA) /\ b \in CallsOn(LongB) /\ c \in CallsOn(LongA)
        /\ itLog[c].name = "intern_bytes"
        /\ itLog[c].ret = itLog[a].ret /\ itLog[c].ret # itLog[b].ret
        /\ it.interned # 0
        /\ InHome(it, itLog[a].ret) = InHome(it, itLog[b].ret)
        /\ \E i \in 0 .. it.capacity - 1 :
             /\ it.entries[i].mem = itLog[a].ret
             /\ it.entries[i].next # NOENT
             /\ it.entries[it.entries[i].next].mem = itLog[b].ret

\* The calls of the run so far that were intern_free calls on an allocated
\* table.
FreeCalls ==
    {n \in 1 .. Len(itLog) : itLog[n].name = "intern_free" /\ itLog[n].capacity # 0}

\* C37: intern_free leaves no table, capacity 0 and count 0, and the call
\* that follows it dereferences no null or freed pointer and behaves as on a
\* table never used: it returns a pointer to the bytes it was given, which is
\* stored in a new array of 16 slots as the only entry.
ReuseAfterFree ==
    /\ ~it.trace.fault
    /\ \A n \in FreeCalls :
         IF n = Len(itLog)
         THEN it.interned = 0 /\ it.capacity = 0 /\ it.count = 0
         ELSE /\ itLog[n + 1].capacity = FirstCapacity
              /\ itLog[n + 1].ret # NULL
              /\ n + 1 = Len(itLog)
                 => /\ it.count = 1
                    /\ lookup(it, itLog[n + 1].ret) = itLog[n + 1].ret

\* What holds of intern_free: after it interned is NULL, the array and the
\* buffers of the table have been freed once, and capacity and count are
\* what they were before the call.
FreeKeepsCapacity ==
    [][(InCalled /\ itLog'[Len(itLog')].name = "intern_free")
       => /\ it'.interned = 0
          /\ it'.capacity = it.capacity /\ it'.count = it.count
          /\ it'.lastfree = it.lastfree
          /\ NoDoubleFree']_vars

\* An intern_free of a table of 16 slots with 15 buffers has left capacity
\* 16 and count 15.
FreeLeftCapacity ==
    /\ itLog # <<>> /\ Len(itLog) \in FreeCalls
    /\ it.interned = 0 /\ it.capacity = 16 /\ it.count = 15

\* The call after an intern_free has dereferenced a null pointer: in lookup,
\* for bytes with a home slot other than 0.
ReuseFaultsInLookup ==
    /\ itLog # <<>> /\ Len(itLog) - 1 \in FreeCalls
    /\ it.trace.fault
    /\ InHome(it, itLog[Len(itLog)].buf) # 0

\* The call after an intern_free has dereferenced a null pointer: in
\* intern_insert, for bytes with the home slot 0.
ReuseFaultsInInsert ==
    /\ itLog # <<>> /\ Len(itLog) - 1 \in FreeCalls
    /\ it.trace.fault
    /\ InHome(it, itLog[Len(itLog)].buf) = 0

\* The call after an intern_free of a table of 16 slots with 15 buffers, for
\* bytes with the home slot 0 that were interned before the intern_free, has
\* stored its buffer in a new array of 32 slots.
ReuseRehashes ==
    /\ itLog # <<>> /\ Len(itLog) - 1 \in FreeCalls
    /\ ~it.trace.fault
    /\ itLog[Len(itLog)].bytes = <<3>>
    /\ it.capacity = 32 /\ it.count = 1 /\ it.interned # 0
    /\ \E n \in 1 .. Len(itLog) - 2 : itLog[n].bytes = <<3>>

-----------------------------------------------------------------------------
\* Claims about the string intern table

\* The calls of the run so far that were str_intern calls.
StrCalls == {n \in 1 .. Len(stLog) : stLog[n].name = "str_intern"}

\* C16: str_intern(s) returns the interned equal string when there is one
\* and otherwise the copy it has stored, never the pointer s of the caller,
\* so that two str_intern calls on equal strings at two addresses return the
\* same pointer also when the first of them inserts the string.
StrInternOwned ==
    /\ \A n \in StrCalls :
         /\ stLog[n].ret # stLog[n].buf
         /\ stLog[n].found # NULL => stLog[n].ret = stLog[n].found
    /\ \A m, n \in StrCalls :
         stLog[m].chars = stLog[n].chars => stLog[m].ret = stLog[n].ret

\* The part of C16 the code keeps: a str_intern of a string that is interned
\* returns the interned pointer, and a str_intern of a new string stores a
\* copy, which later calls on equal strings return.
StrInternStored ==
    \A n \in StrCalls :
        /\ stLog[n].found # NULL => stLog[n].ret = stLog[n].found
        /\ stLog[n].found = NULL
           => /\ stLog[n].ret = stLog[n].buf
              /\ st.heap[stLog[n].buf + 1] = [bytes |-> stLog[n].chars,
                                              by |-> "intern",
                                              frees |-> IF st.interned = 0 THEN 1 ELSE 0]
              /\ \A m \in StrCalls :
                   (m > n /\ stLog[m].chars = stLog[n].chars)
                   => stLog[m].ret = stLog[n].buf + 1

\* Two str_intern calls on equal strings that returned two pointers: the
\* first one the caller's own string, the second one the stored copy.
StrInternDiffers ==
    \E m, n \in StrCalls :
        /\ m < n /\ stLog[m].chars = stLog[n].chars
        /\ stLog[m].ret = stLog[m].buf
        /\ stLog[n].ret = stLog[m].buf + 1

-----------------------------------------------------------------------------
\* Claims about two threads on one pointer-linked map

\* The call number n since the table was last at rest.
CcKey(n) == ccPeriod[n][1]
CcValue(n) == ccPeriod[n][2]

\* The table after the calls number n and then m, one after the other.
CcSerial(n, m) ==
    hashmap_set(CcClean(hashmap_set(ccBase, CcKey(n), CcValue(n)).h),
                CcKey(m), CcValue(m)).h

\* The slots of t that hold key.
CcSlots(t, key) == {i \in 0 .. t.capacity - 1 : t.entries[i].key = key}

\* The two calls have run at once and have returned.
CcOverlapped == Quiescent /\ CcRuns /\ Len(ccPeriod) = 2

\* A call that no other call overlaps does, block by block, what hashmap_set
\* does.
SetAloneIsSerial ==
    (Quiescent /\ Len(ccPeriod) = 1)
        => /\ CcRuns
           /\ sh.t = CcClean(hashmap_set(ccBase, CcKey(1), CcValue(1)).h)

\* The slots of t that hold a key.
CcOccupied(t) == {i \in 0 .. t.capacity - 1 : t.entries[i].key # NULL}

\* The chains of t are whole: the walk of hashmap_get for the key of a slot
\* ends at that slot.
CcWhole(t) ==
    \A i \in CcOccupied(t) :
        CcFind(t, Home(t.entries[i].key, t.capacity), t.entries[i].key,
               t.capacity) = i

\* The count of t is the number of its slots that hold a key and a value.
CcCounted(t) ==
    t.count = Cardinality({i \in CcOccupied(t) : t.entries[i].value # NULL})

\* The two calls that ran at once stored values under two keys.
CcTwoStores ==
    /\ CcOverlapped
    /\ CcKey(1) # CcKey(2)
    /\ CcValue(1) # NULL
    /\ CcValue(2) # NULL

\* The table is the one neither order of the two calls leaves.
CcNotSerial == sh.t \notin {CcClean(CcSerial(1, 2)), CcClean(CcSerial(2, 1))}

\* C38: hashmap_set calls of two threads that run at once corrupt the table,
\* and calls that do not run at once do not: a call that no other call
\* overlaps leaves the table hashmap_set leaves, with whole chains when it
\* found them whole.
UnserialisedSetCorrupts ==
    (Quiescent /\ Len(ccPeriod) = 1)
        => /\ SetAloneIsSerial
           /\ CcWhole(ccBase) => CcWhole(sh.t)

\* C38: two calls that ran at once on a table with whole chains and a right
\* count have returned; the entry one of them wrote is in no slot, and the
\* count is not the number of entries.
LostEntryWitness ==
    /\ CcTwoStores
    /\ CcWhole(ccBase) /\ CcCounted(ccBase)
    /\ CcNotSerial
    /\ \E n \in 1 .. 2 : CcSlots(sh.t, CcKey(n)) = {}
    /\ ~CcCounted(sh.t)

\* C38: after two calls that ran at once, a key that is in a slot is not
\* found by hashmap_get.
StoredKeyUnfound ==
    ~(/\ CcTwoStores
      /\ CcWhole(ccBase)
      /\ \E i \in CcOccupied(sh.t) :
             CcGet(sh.t, sh.t.entries[i].key) = NULL)

\* C38: after two calls that ran at once, a chain is a cycle: the walk of
\* hashmap_get for a key of that chain does not end.
ChainCycle ==
    ~(/\ CcTwoStores
      /\ CcWhole(ccBase)
      /\ \E k \in CcKeys : CcGet(sh.t, k) = HANG)

\* C38: a call that runs while the other resizes writes through a pointer
\* into the array that the resize freed.
StalePointerUsed == sh.bad # "stale"

\* C38: a call in a table whose chains two calls that ran at once have made
\* a cycle does not return.
CallHangs == \A p \in Threads : th[p].pc # "hung"

====
